---- MODULE Spec2Model ----
(***************************************************************************)
(* A model of the turtlefinder container-engine discovery core:            *)
(*   - the Finder (TurtleFinder): engine registry and activator registry   *)
(*     behind one mutex, Containers() = prune, update, fan out, collect;   *)
(*   - the Engine record with its supervising task;                        *)
(*   - the socket-activator tracker (socketActivatorProcess) and the       *)
(*     activation-and-attach protocol.                                     *)
(* Goroutines are processes; every step is one blocking-free stretch of    *)
(* code.  A mutex section is two steps: the acquisition, then the body     *)
(* together with the release.  A Go runtime panic sets "failed" and stops  *)
(* the program.                                                            *)
(***************************************************************************)
EXTENDS Integers, Sequences, FiniteSets, TLC

\* ------------------------------------------------------------- bounds
\* Engine records (watchers) that are created over one run.
MaxEngines == 2
\* Changes of the activator's socket configuration over one run.
MaxChanges == 2
\* Socket-activator trackers that are created over one run.
MaxTrackers == 2
\* Processes of the process table that stackEngines is given.
MaxStackPIDs == 4
\* API paths a detector's factory is given.
MaxAPIs == 2
\* The calls of Engine.Containers on one engine that are followed.
MaxCalls == 2

\* ---------------------------------------------------------- processes
\* The processes of the host, by PID: the process table handed to
\* Containers() is any subset of them.
ProcName == <<"systemd", "dockerd", "podman">>
PIDs == DOMAIN ProcName
\* The process names the engine detector plugins look for.
EngineNames == {"dockerd", "containerd", "crio"}
\* The process names the activator detector plugins look for.
ActivatorNames == {"systemd"}
\* The callers of the Finder's public operations (goroutines of the user).
Callers == {"c1", "c2"}
EngineIds == 1..MaxEngines
TrackerIds == 1..MaxTrackers
NoOwner == <<"free", "-">>

\* The activator's listening unix sockets, by inode: the path of each as a
\* sequence of its components (an absolute path).
SockPath == << <<"run", "podman", "podman.sock">>,
               <<"run", "user", "podman", "podman.sock">>,
               <<"run", "dbus", "system_bus_socket">> >>
Inodes == DOMAIN SockPath
\* The files under the activator's root (/proc/<pid>/root): the socket of the
\* second path was bound in another mount namespace and is not among them.
Wormhole == { <<"run", "podman", "podman.sock">>,
              <<"run", "dbus", "system_bus_socket">> }
\* The activated-engine finder plugins: API endpoint suffix and process name.
FinderPlugins == { [suffix |-> "podman.sock", name |-> "podman"] }
\* runtime.GOMAXPROCS(0) of the host.
GoMaxProcs == 2
\* The values WithWorkers is called with.
WorkerOptions == {0, 1, 2}

VARIABLES
    engines,      \* f.engines: PID -> sequence of engine ids
    enginesNil,   \* f.engines == nil (after Close)
    activators,   \* f.activators: PID -> tracker id
    mux,          \* f.mux: its holder, or NoOwner
    sem,          \* f.workersem: slots acquired
    numworkers,   \* f.numworkers
    failed,       \* "no", or the runtime panic that ended the program
    ctxCancelled, \* the context supplied by the contexter is cancelled
    eng,          \* the watchers and their Engine records, by engine id
    nextEngine,   \* next unused engine id
    pc,           \* per caller: where it is
    procs,        \* per caller: the process table of its (last) Containers() call
    wg,           \* per caller: the wait group of its update()
    snap,         \* per caller: allEngines, the snapshot of its call
    fan,          \* per caller: the fan-out of its call
    orphans,      \* engine queries still running of calls that have returned
    ret,          \* per caller: what its last operation returned
    att,          \* per caller: the daemon attach task its call spawned
    trk,          \* the socket-activator trackers, by tracker id
    tu,           \* per caller: the locals of the tracker update() it runs
    act,          \* the activation-and-attach tasks, by <<tracker, inode>>
    socks,        \* the listening sockets (inodes) the activator holds
    changes,      \* changes of socks so far
    dispatched,   \* per <<tracker, inode>>: activation attempts dispatched
    stk,          \* the inputs and the result of one stackEngines
    fac,          \* the inputs and the result of one watcher factory call
    loc,          \* one run of the loop that locates an activated engine process
    psm,          \* one call of processStatusMatch
    fdm,          \* one call of findDaemon
    lab           \* label maps: a watcher's portfolio and what Engine.Containers hands out

finderVars == <<engines, enginesNil, activators, mux, sem, numworkers>>
\* The calls of functions that are examined on their own.
\* The calls of the functions without a receiver, and of Engine.Containers.
pureVars == <<psm, fdm, lab>>
callVars == <<stk, fac, loc, pureVars>>
envVars == <<failed, ctxCancelled, socks, changes, callVars>>
callerVars == <<pc, procs, wg, snap, fan, orphans, ret>>
taskVars == <<att, act>>
trackerVars == <<trk, tu, dispatched>>
\* Everything but the calls examined on their own.
finderSide == <<finderVars, failed, ctxCancelled, socks, changes, eng, nextEngine, callerVars,
                taskVars, trackerVars>>
vars == <<finderVars, envVars, eng, nextEngine, callerVars, taskVars, trackerVars>>

\* ------------------------------------------------------------ helpers
\* No goroutine has panicked.
Running == failed = "no"
Range(s) == { s[i] : i \in DOMAIN s }
\* m with key k set to v (a Go map assignment).
MapSet(m, k, v) == [ x \in DOMAIN m \cup {k} |-> IF x = k THEN v ELSE m[x] ]
\* m without the keys in ks (Go's delete).
MapDel(m, ks) == [ x \in DOMAIN m \ ks |-> m[x] ]
EmptyMap == [ x \in {} |-> 0 ]
\* All engines of the registry, flattened.
Registered(m) == UNION { Range(m[p]) : p \in DOMAIN m }
Caller(t) == <<"caller", t>>
Attacher(t) == <<"attach", t>>

\* ------------------------------------------------------------- engines
\* A watcher that no factory has created yet.
UnusedEngine == [state |-> "unused", pid |-> 0, done |-> FALSE,
                 closes |-> [supervisor |-> 0, prune |-> 0, finder |-> 0],
                 sw |-> "none", watch |-> "none", ready |-> FALSE, wecker |-> FALSE,
                 stream |-> 0, runs |-> 0]
\* Engine.IsAlive: a non-blocking read of Done.
IsAlive(e) == ~eng[e].done
\* How often the watcher's Close() was invoked, over all paths.
CloseCount(e) == eng[e].closes.supervisor + eng[e].closes.prune + eng[e].closes.finder
\* eng after Close() was invoked on every engine of es, on the given path.
ClosedOn(es, path) ==
    [ e \in EngineIds |->
        IF e \in es
        THEN [eng[e] EXCEPT !.closes[path] = @ + 1]
        ELSE eng[e] ]
\* New() with WithWorkers(n): zero or less is taken as GOMAXPROCS.
NewNumWorkers(n) == IF n <= 0 THEN GoMaxProcs ELSE n

\* ------------------------------------------------------- initial state
NoRet == [op |-> "none", list |-> {}, count |-> 0, complete |-> FALSE, steady |-> 0,
          again |-> FALSE]
NoFan == [todo |-> {}, running |-> {}, sent |-> {}, left |-> 0, steady |-> 0,
          asked |-> <<>>, closes |-> 0]
NoAttach == [pc |-> "none", ws |-> <<>>]
NoOut == [ws |-> <<>>, created |-> {}, closed |-> {}, panic |-> FALSE]
NoFac == [pc |-> "none", kind |-> "none", apis |-> <<>>, prof |-> <<>>, out |-> NoOut]
NoLoc == [pc |-> "none", appears |-> 0, attempt |-> 0, calls |-> 0, pid |-> 0,
          cancelled |-> FALSE, atEntry |-> FALSE, late |-> 0, err |-> FALSE, created |-> FALSE]
NoPsm == [pc |-> "none", statline |-> <<>>, name |-> <<>>, ppidtext |-> <<>>, result |-> "none"]
NoFdm == [pc |-> "none", proc |-> <<>>, ppid |-> 0, name |-> <<>>, udsino |-> 0, result |-> 0]
NoLab == [heap |-> <<>>, portfolio |-> <<>>, calls |-> <<>>]
NoStk == [pc |-> "none", parent |-> <<>>, epid |-> <<>>, cntrs |-> {}, labels |-> <<>>]
NoTu == [k |-> 0, direct |-> FALSE, visited |-> {}, raw |-> {}, hash |-> 0, sox |-> {}, new |-> {},
         sent |-> {}, seen |-> {}]
NoAct == [outer |-> "none", inner |-> "none", owner |-> "-", synched |-> FALSE,
          timely |-> FALSE, e |-> 0, err |-> FALSE]
DaemonPIDs == { p \in PIDs : ProcName[p] \in EngineNames }
ActivatorPIDs == { p \in PIDs : ProcName[p] \in ActivatorNames }

\* The state New() leaves: empty registries, the worker pool sized; with the
\* trackers that exist outside the Finder.
InitWith(trackers) ==
    /\ engines = EmptyMap
    /\ enginesNil = FALSE
    /\ activators = EmptyMap
    /\ mux = NoOwner
    /\ sem = 0
    /\ numworkers \in { NewNumWorkers(n) : n \in WorkerOptions }
    /\ failed = "no"
    /\ ctxCancelled = FALSE
    /\ eng = [ e \in EngineIds |-> UnusedEngine ]
    /\ nextEngine = 1
    /\ pc = [ t \in Callers |-> "idle" ]
    /\ procs = [ t \in Callers |-> {} ]
    /\ wg = [ t \in Callers |-> 0 ]
    /\ snap = [ t \in Callers |-> {} ]
    /\ fan = [ t \in Callers |-> NoFan ]
    /\ orphans = 0
    /\ ret = [ t \in Callers |-> NoRet ]
    /\ att = [ a \in Callers \X DaemonPIDs |-> NoAttach ]
    /\ trk = trackers
    /\ tu = [ t \in Callers |-> NoTu ]
    /\ act = [ a \in TrackerIds \X Inodes |-> NoAct ]
    /\ socks = {1}
    /\ changes = 0
    /\ dispatched = [ a \in TrackerIds \X Inodes |-> 0 ]
    /\ stk = NoStk
    /\ fac = NoFac
    /\ loc = NoLoc
    /\ psm = NoPsm
    /\ fdm = NoFdm
    /\ lab = NoLab

Init == InitWith(<<>>)

\* ------------------------------------------------ the supervising task
\* A factory creates a watcher for the engine process pid; stream tells which
\* of the engine's workload streams it watches (1, and 2 for containerd's CRI).
NewWatcher(en, e, pid) ==
    [en EXCEPT ![e] = [UnusedEngine EXCEPT !.state = "created", !.pid = pid, !.stream = 1]]
\* startWatch spawns a task that runs Watch; runs counts the tasks that have
\* invoked Watch on the watcher.
WatchStarted(en, e) == [en EXCEPT ![e].runs = @ + 1]
\* NewEngine binds the watcher and spawns the supervising task, which runs Watch.
NewEngine(en, e) == [en EXCEPT ![e].state = "watching", ![e].runs = @ + 1]

\* A supervising task that ends without closing Done.
WatchEndedDoneLeftOpen(r) == [r EXCEPT !.state = "closing"]

\* What the supervising task does to the engine when Watch returns: it
\* closes Done.
WatchEnded(r) == [r EXCEPT !.done = TRUE, !.state = "closing"]

\* The supervising task: Watch returns (the context was cancelled, the engine
\* disconnected or the stream failed) and Done is closed.
SupervisorWatchReturns(e) ==
    /\ Running
    /\ eng[e].state = "watching"
    /\ eng' = [eng EXCEPT ![e] = WatchEnded(@)]
    /\ UNCHANGED <<finderVars, envVars, nextEngine, callerVars, taskVars, trackerVars>>

\* The supervising task: Watch returns nil, the value startWatch's task tests
\* for; err.Error() in the log call then dereferences the nil error and the
\* program fails with Done open and the watcher not closed.
SupervisorWatchReturnsNil(e) ==
    /\ Running
    /\ eng[e].state = "watching"
    /\ eng' = [eng EXCEPT ![e].state = "returned"]
    /\ failed' = "supervisor"
    /\ UNCHANGED <<finderVars, ctxCancelled, socks, changes, callVars, nextEngine, callerVars,
                   taskVars, trackerVars>>

\* The supervising task closes the watcher and ends.
SupervisorClose(e) ==
    /\ Running
    /\ eng[e].state = "closing"
    /\ eng' = [ClosedOn({e}, "supervisor") EXCEPT ![e].state = "exit"]
    /\ UNCHANGED <<finderVars, envVars, nextEngine, callerVars, taskVars, trackerVars>>

\* The user cancels the context the contexter hands out.
CancelContext ==
    /\ Running
    /\ ~ctxCancelled
    /\ ctxCancelled' = TRUE
    /\ UNCHANGED <<finderVars, failed, socks, changes, callVars, eng, nextEngine, callerVars,
                   taskVars, trackerVars>>

\* ------------------------------------------------------ the Finder mutex
Lock(who) == mux = NoOwner /\ mux' = who
Unlock == mux' = NoOwner
\* A step of caller t from pc value "from" to "to".
Goto(t, from, to) == pc[t] = from /\ pc' = [pc EXCEPT ![t] = to]

\* --------------------------------------------------- prune (the Finder)
\* slices.IndexFunc: the first index whose element del says to delete, 0 for
\* none.  The predicate del is a function of the elements.
IndexFunc(s, del) ==
    IF \E i \in DOMAIN s : del[s[i]]
    THEN CHOOSE i \in DOMAIN s : del[s[i]] /\ \A j \in 1..(i - 1) : ~del[s[j]]
    ELSE 0
\* A deletion that stops after the first element found.
DeleteFirstOnly(s, del) ==
    LET i == IndexFunc(s, del)
    IN  IF i = 0 THEN s ELSE SubSeq(s, 1, i - 1) \o SubSeq(s, i + 1, Len(s))
\* deleteAndZeroFunc: s without the elements del says to delete, order kept.
DeleteAndZeroFunc(s, del) ==
    LET i == IndexFunc(s, del)
    IN  IF i = 0 THEN s
        ELSE SubSeq(s, 1, i - 1) \o SelectSeq(SubSeq(s, i + 1, Len(s)), LAMBDA v : ~del[v])
\* A predicate that lets every engine go.
PruneDelAlways(e) == TRUE

\* prune's predicate: an engine that is not alive goes (and is closed).
PruneDel(e) == ~IsAlive(e)
\* The engines prune closes: the dead ones of the processes that are gone.
PruneCloses(m, table) ==
    UNION { { e \in Range(m[p]) : PruneDel(e) } : p \in DOMAIN m \ table }
\* The engine registry prune leaves, for the process table "table".
PruneEngines(m, table) ==
    LET kept(p) == IF p \in table THEN m[p] ELSE DeleteAndZeroFunc(m[p], [ e \in EngineIds |-> PruneDel(e) ])
    IN  [ p \in { q \in DOMAIN m : Len(kept(q)) > 0 \/ q \in table } |-> kept(p) ]
\* A prune that leaves the activator registry alone.
PruneActivatorsKeepsAll(m, table) == m

\* The activator registry prune leaves.
PruneActivators(m, table) == MapDel(m, DOMAIN m \ table)

\* ------------------------------------------------- Engines, EngineCount
\* An Engines() that does not look at Done.
EnginesAll(m) == Registered(m)

\* Engines(): the engines of the registry whose Done is not closed.
EnginesOf(m) == { e \in Registered(m) : ~eng[e].done }
\* EngineCount(): len(f.engines).
EngineCountOf(m) == Cardinality(DOMAIN m)

\* Caller t calls Containers(ctx, table, pidmap).
StartContainers(t, table) ==
    /\ Running
    /\ Goto(t, "idle", "prune_lock")
    \* a tracker is left for every call in flight that may create one
    /\ (table \cap ActivatorPIDs # {}) =>
          Len(trk) + Cardinality({ u \in Callers : pc[u] # "idle" /\ procs[u] \cap ActivatorPIDs # {} })
              < MaxTrackers
    /\ procs' = [procs EXCEPT ![t] = table]
    \* the result of a Containers() call just before, with the same table, is
    \* kept until this call returns
    /\ ret' = [ret EXCEPT ![t] = IF ret[t].op = "Containers" /\ procs[t] = table
                                 THEN [@ EXCEPT !.again = TRUE]
                                 ELSE NoRet]
    /\ UNCHANGED <<finderVars, envVars, eng, nextEngine, wg, snap, fan, orphans, taskVars, trackerVars>>

\* prune: f.mux.Lock().
PruneLock(t) ==
    /\ Running
    /\ Goto(t, "prune_lock", "prune")
    /\ Lock(Caller(t))
    /\ UNCHANGED <<engines, enginesNil, activators, sem, numworkers, envVars, eng, nextEngine,
                   procs, wg, snap, fan, orphans, ret, taskVars, trackerVars>>

\* prune: the dead engines of vanished processes are closed and dropped, the
\* vanished activators are dropped; the mutex is released.
Prune(t) ==
    /\ Running
    /\ Goto(t, "prune", "ud_lock")
    /\ mux = Caller(t)
    /\ engines' = PruneEngines(engines, procs[t])
    /\ eng' = ClosedOn(PruneCloses(engines, procs[t]), "prune")
    /\ activators' = PruneActivators(activators, procs[t])
    /\ Unlock
    /\ UNCHANGED <<enginesNil, sem, numworkers, envVars, nextEngine,
                   procs, wg, snap, fan, orphans, ret, taskVars, trackerVars>>

\* Caller t calls Close().
StartClose(t) ==
    /\ Running
    /\ Goto(t, "idle", "close_lock")
    /\ ret' = [ret EXCEPT ![t] = NoRet]
    /\ UNCHANGED <<finderVars, envVars, eng, nextEngine, procs, wg, snap, fan, orphans, taskVars, trackerVars>>

CloseLock(t) ==
    /\ Running
    /\ Goto(t, "close_lock", "close")
    /\ Lock(Caller(t))
    /\ UNCHANGED <<engines, enginesNil, activators, sem, numworkers, envVars, eng, nextEngine,
                   procs, wg, snap, fan, orphans, ret, taskVars, trackerVars>>

\* The registry Close leaves: none (f.engines = nil).
CloseEngines(m) == EmptyMap
\* A Close that closes no watcher.
CloseClosesNone(m) == {}

\* The engines Close closes.
CloseCloses(m) == Registered(m)

\* Close: every engine of the registry is closed, the registry becomes nil.
Close(t) ==
    /\ Running
    /\ Goto(t, "close", "idle")
    /\ mux = Caller(t)
    /\ eng' = ClosedOn(CloseCloses(engines), "finder")
    /\ engines' = CloseEngines(engines)
    /\ enginesNil' = TRUE
    /\ Unlock
    /\ ret' = [ret EXCEPT ![t] = [NoRet EXCEPT !.op = "Close"]]
    /\ UNCHANGED <<activators, sem, numworkers, envVars, nextEngine,
                   procs, wg, snap, fan, orphans, taskVars, trackerVars>>

\* Caller t calls Engines().
StartEngines(t) ==
    /\ Running
    /\ Goto(t, "idle", "engines_lock")
    /\ ret' = [ret EXCEPT ![t] = NoRet]
    /\ UNCHANGED <<finderVars, envVars, eng, nextEngine, procs, wg, snap, fan, orphans, taskVars, trackerVars>>

EnginesLock(t) ==
    /\ Running
    /\ Goto(t, "engines_lock", "engines")
    /\ Lock(Caller(t))
    /\ UNCHANGED <<engines, enginesNil, activators, sem, numworkers, envVars, eng, nextEngine,
                   procs, wg, snap, fan, orphans, ret, taskVars, trackerVars>>

Engines(t) ==
    /\ Running
    /\ Goto(t, "engines", "idle")
    /\ mux = Caller(t)
    /\ Unlock
    /\ ret' = [ret EXCEPT ![t] = [NoRet EXCEPT !.op = "Engines", !.list = EnginesOf(engines)]]
    /\ UNCHANGED <<engines, enginesNil, activators, sem, numworkers, envVars, eng, nextEngine,
                   procs, wg, snap, fan, orphans, taskVars, trackerVars>>

\* Caller t calls EngineCount().
StartEngineCount(t) ==
    /\ Running
    /\ Goto(t, "idle", "count_lock")
    /\ ret' = [ret EXCEPT ![t] = NoRet]
    /\ UNCHANGED <<finderVars, envVars, eng, nextEngine, procs, wg, snap, fan, orphans, taskVars, trackerVars>>

EngineCountLock(t) ==
    /\ Running
    /\ Goto(t, "count_lock", "count")
    /\ Lock(Caller(t))
    /\ UNCHANGED <<engines, enginesNil, activators, sem, numworkers, envVars, eng, nextEngine,
                   procs, wg, snap, fan, orphans, ret, taskVars, trackerVars>>

EngineCount(t) ==
    /\ Running
    /\ Goto(t, "count", "idle")
    /\ mux = Caller(t)
    /\ Unlock
    /\ ret' = [ret EXCEPT ![t] = [NoRet EXCEPT !.op = "EngineCount", !.count = EngineCountOf(engines)]]
    /\ UNCHANGED <<engines, enginesNil, activators, sem, numworkers, envVars, eng, nextEngine,
                   procs, wg, snap, fan, orphans, taskVars, trackerVars>>

\* ------------------------------------------------------- updateDaemons
\* The processes of the table that carry an engine process name.
EngineProcs(table) == { p \in table : ProcName[p] \in EngineNames }
\* Of those, the ones the registry does not know yet.
NewEngineProcs(table, m) == { p \in EngineProcs(table) : p \notin DOMAIN m }

UpdateDaemonsLock(t) ==
    /\ Running
    /\ Goto(t, "ud_lock", "ud_filter")
    /\ Lock(Caller(t))
    /\ UNCHANGED <<engines, enginesNil, activators, sem, numworkers, envVars, eng, nextEngine,
                   procs, wg, snap, fan, orphans, ret, taskVars, trackerVars>>

\* updateDaemons: the new engine processes are told from the known ones under
\* the mutex; then one attach task is spawned for each of them.
UpdateDaemons(t) ==
    /\ Running
    /\ Goto(t, "ud_filter", "ua_lock")
    /\ mux = Caller(t)
    /\ Unlock
    /\ LET new == NewEngineProcs(procs[t], engines)
       IN  /\ wg' = [wg EXCEPT ![t] = @ + Cardinality(new)]
           /\ att' = [ a \in DOMAIN att |->
                         IF a[1] = t /\ a[2] \in new
                         THEN [pc |-> "scan", ws |-> <<>>]
                         ELSE att[a] ]
    /\ UNCHANGED <<engines, enginesNil, activators, sem, numworkers, envVars, eng, nextEngine,
                   procs, snap, fan, orphans, ret, act, trackerVars>>

\* The engine ids the next n watchers get.
FreshEngines(n) == [ i \in 1..n |-> nextEngine + i - 1 ]
\* How many watchers a daemon detector's NewWatchers may return: none (no API
\* endpoint answers), one, or two (containerd: native and CRI).
WatcherCounts == { n \in 0..2 : nextEngine + n - 1 <= MaxEngines }

\* The attach task ends: wg.Done().
AttachEnd(t, p) ==
    /\ att' = [att EXCEPT ![<<t, p>>] = NoAttach]
    /\ wg' = [wg EXCEPT ![t] = @ - 1]

\* The attach task of caller t for engine process p looks for the API sockets
\* of p and asks the detector for watchers; it starts the watch of the first
\* one (startWatch, time-boxed) and binds it to a new Engine.
AttachScan(t, p) ==
    /\ Running
    /\ att[<<t, p>>].pc = "scan"
    /\ \E n \in WatcherCounts :
         IF n = 0
         THEN /\ AttachEnd(t, p)
              /\ UNCHANGED <<eng, nextEngine>>
         ELSE LET ws == FreshEngines(n)
                  created == [ e \in EngineIds |->
                                IF e \in Range(ws)
                                THEN [NewWatcher(eng, e, p)[e] EXCEPT
                                        !.stream = CHOOSE i \in DOMAIN ws : ws[i] = e]
                                ELSE eng[e] ]
              IN  /\ eng' = NewEngine(WatchStarted(created, ws[1]), ws[1])
                  /\ nextEngine' = nextEngine + n
                  /\ att' = [att EXCEPT ![<<t, p>>] = [pc |-> "lock", ws |-> ws]]
                  /\ UNCHANGED wg
    /\ UNCHANGED <<finderVars, envVars, pc, procs, snap, fan, orphans, ret, act, trackerVars>>

AttachLock(t, p) ==
    /\ Running
    /\ att[<<t, p>>].pc = "lock"
    /\ Lock(Attacher(t))
    /\ att' = [att EXCEPT ![<<t, p>>].pc = "reg"]
    /\ UNCHANGED <<engines, enginesNil, activators, sem, numworkers, envVars, eng, nextEngine,
                   callerVars, act, trackerVars>>

\* f.engines[pid] = append(f.engines[pid], eng)
AppendEngine(m, p, e) == MapSet(m, p, Append(IF p \in DOMAIN m THEN m[p] ELSE <<>>, e))

\* The attach task registers the engine under the mutex; with further watchers
\* left it goes on with the next one.  Writing to the nil map panics.
AttachRegister(t, p) ==
    /\ Running
    /\ att[<<t, p>>].pc = "reg"
    /\ mux = Attacher(t)
    /\ LET ws == att[<<t, p>>].ws
       IN  IF enginesNil
           THEN /\ failed' = "assignment to entry in nil map"
                /\ UNCHANGED <<engines, mux, eng, att, wg>>
           ELSE /\ engines' = AppendEngine(engines, p, Head(ws))
                /\ Unlock
                /\ UNCHANGED failed
                /\ IF Len(ws) > 1
                   THEN /\ eng' = NewEngine(WatchStarted(eng, ws[2]), ws[2])
                        /\ att' = [att EXCEPT ![<<t, p>>] = [pc |-> "lock", ws |-> Tail(ws)]]
                        /\ UNCHANGED wg
                   ELSE /\ AttachEnd(t, p)
                        /\ UNCHANGED eng
    /\ UNCHANGED <<enginesNil, activators, sem, numworkers, ctxCancelled, socks, changes, callVars,
                   nextEngine, pc, procs, snap, fan, orphans, ret, act, trackerVars>>

\* ---------------------------------------- the socket-activator tracker
\* newSocketActivator: no hash yet (the zero value), nothing observed.
NewTracker(pid, cb) == [pid |-> pid, hash |-> 0, observed |-> {}, cb |-> cb]

RECURSIVE DigestOf(_)
DigestOf(S) ==
    IF S = {} THEN 0
    ELSE LET x == CHOOSE y \in S : TRUE IN 2 ^ x + DigestOf(S \ {x})
\* rawSocketFdsWithHash: the xxhash digest over the fd and inode strings of the
\* sockets.  Different configurations get different digests here, and none
\* gets the zero value a new tracker holds (the digest of no input is not 0).
XXHash(raw) == 1 + DigestOf(raw)

\* strings.HasSuffix(api, "/" + suffix) for an absolute path: the last
\* component is the suffix.
HasSuffix(path, suffix) == Len(path) >= 1 /\ path[Len(path)] = suffix
\* The finder plugins whose API endpoint suffix the socket's path carries.
MatchingPlugins(ino) == { f \in FinderPlugins : HasSuffix(SockPath[ino], f.suffix) }

\* A check that takes every hash for a changed one.
NeverSameHash(k, hash) == FALSE

\* discoverAPIPaths, the first check: the hash has not changed.
SameHash(k, hash) == hash = trk[k].hash
\* discoverAPIPaths: the observed set without the sockets that are gone.
PrunedObserved(observed, sox) == { i \in observed : i \in sox }
\* A discovery that hands out every listening socket, observed or not.
AllPaths(observed, sox) == sox

\* discoverAPIPaths: the newly discovered listening sockets.
NewPaths(observed, sox) == { i \in sox : i \notin PrunedObserved(observed, sox) }
\* listeningUDSPaths: the sockets of the fd list that are listening.
ListeningUDSPaths(raw, listening) == { i \in raw : i \in listening }

\* update: rawSocketFdsWithHash reads the fds of the activator; reading them
\* may fail, which ends the update.
TrackerRawSocketFds(t) ==
    /\ Running
    /\ pc[t] = "tu_raw"
    /\ \/ /\ tu' = [tu EXCEPT ![t].raw = socks, ![t].hash = XXHash(socks)]
          /\ pc' = [pc EXCEPT ![t] = "tu_check"]
       \/ /\ pc' = [pc EXCEPT ![t] = "tu_ret"]
          /\ UNCHANGED tu
    /\ UNCHANGED <<finderVars, envVars, eng, nextEngine, procs, wg, snap, fan, orphans, ret,
                   taskVars, trk, dispatched>>

\* discoverAPIPaths, under the tracker's mutex: an unchanged hash ends the update.
TrackerCheckHash(t) ==
    /\ Running
    /\ pc[t] = "tu_check"
    /\ pc' = [pc EXCEPT ![t] = IF SameHash(tu[t].k, tu[t].hash) THEN "tu_ret" ELSE "tu_sox"]
    /\ UNCHANGED <<finderVars, envVars, eng, nextEngine, procs, wg, snap, fan, orphans, ret,
                   taskVars, trackerVars>>

\* discoverAPIPaths, outside the mutex: the listening sockets visible to the
\* activator are read (none when /proc/<pid>/net/unix cannot be opened) and
\* intersected with the fd list.
TrackerListening(t) ==
    /\ Running
    /\ pc[t] = "tu_sox"
    /\ \E listening \in {socks, {}} :
         tu' = [tu EXCEPT ![t].sox = ListeningUDSPaths(tu[t].raw, listening)]
    /\ pc' = [pc EXCEPT ![t] = "tu_discover"]
    /\ UNCHANGED <<finderVars, envVars, eng, nextEngine, procs, wg, snap, fan, orphans, ret,
                   taskVars, trk, dispatched>>

\* discoverAPIPaths, under the tracker's mutex again: unless someone else was
\* faster, the hash is stored, the observed set pruned, and the new sockets
\* are put into it and handed out.
TrackerDiscover(t) ==
    /\ Running
    /\ pc[t] = "tu_discover"
    /\ LET k == tu[t].k
       IN  IF SameHash(k, tu[t].hash)
           THEN /\ pc' = [pc EXCEPT ![t] = "tu_ret"]
                /\ UNCHANGED <<trk, tu>>
           ELSE /\ trk' = [trk EXCEPT ![k].hash = tu[t].hash,
                                      ![k].observed = PrunedObserved(@, tu[t].sox)
                                                        \cup NewPaths(@, tu[t].sox)]
                /\ tu' = [tu EXCEPT ![t].new = NewPaths(trk[k].observed, tu[t].sox)]
                /\ pc' = [pc EXCEPT ![t] = "tu_dispatch"]
    /\ UNCHANGED <<finderVars, envVars, eng, nextEngine, procs, wg, snap, fan, orphans, ret,
                   taskVars, dispatched>>

\* A resolution that succeeds on every path.
EvalSymlinksAlways(path) == TRUE
\* procfsroot.EvalSymlinks succeeds on a path that exists under the root.
EvalSymlinks(path) == path \in Wormhole

\* An activateAndWatch that skips every socket.
DispatchesNone(new) == {}

\* activateAndWatch: the new sockets an activation is dispatched for, those
\* whose path carries the suffix of a finder plugin and resolves under the
\* activator's root.
Dispatches(new) == { i \in new : MatchingPlugins(i) # {} /\ EvalSymlinks(SockPath[i]) }
\* No activation of tracker k for socket i is in flight.
ActFree(k, i) == act[<<k, i>>].outer \in {"none", "done"} /\ act[<<k, i>>].inner \in {"none", "end"}

\* The caller u is inside an update() of the tracker that t is updating.
Overlaps(u, t) ==
    /\ u # t
    /\ tu[u].k = tu[t].k
    /\ pc[u] \in {"tu_raw", "tu_check", "tu_sox", "tu_discover", "tu_dispatch"}

\* activateAndWatch: for every new socket of a known engine the wait group is
\* incremented and an activation-and-attach task is spawned.  Each update
\* keeps what it dispatched (sent) and what the updates running next to it
\* dispatched meanwhile (seen).
TrackerDispatch(t) ==
    /\ Running
    /\ pc[t] = "tu_dispatch"
    /\ LET k == tu[t].k
           d == Dispatches(tu[t].new)
       IN  /\ \A i \in d : ActFree(k, i)
           /\ act' = [ a \in DOMAIN act |->
                        IF a[1] = k /\ a[2] \in d
                        THEN [NoAct EXCEPT !.outer = "wait", !.inner = "act", !.owner = t]
                        ELSE act[a] ]
           /\ dispatched' = [ a \in DOMAIN dispatched |->
                               IF a[1] = k /\ a[2] \in d THEN dispatched[a] + 1 ELSE dispatched[a] ]
           /\ wg' = [wg EXCEPT ![t] = @ + Cardinality(d)]
    /\ pc' = [pc EXCEPT ![t] = "tu_ret"]
    /\ tu' = [ u \in DOMAIN tu |->
                IF u = t
                THEN [tu[t] EXCEPT !.new = {}, !.raw = {}, !.sox = {}, !.hash = 0,
                                   !.sent = Dispatches(tu[t].new)]
                ELSE IF Overlaps(u, t)
                THEN [tu[u] EXCEPT !.seen = @ \cup Dispatches(tu[t].new)]
                ELSE tu[u] ]
    /\ UNCHANGED <<finderVars, envVars, eng, nextEngine, procs, snap, fan, orphans, ret, att, trk>>

\* ---------------------------------------------------- updateActivators
\* The processes of the table that carry an activator process name and that
\* the activator registry does not know yet.
NewActivatorProcs(table, m) ==
    { p \in table : ProcName[p] \in ActivatorNames /\ p \notin DOMAIN m }
\* The elements of a set of numbers in increasing order.
Sorted(S) ==
    CHOOSE q \in [1..Cardinality(S) -> S] :
        \A i, j \in 1..Cardinality(S) : i < j => q[i] < q[j]
Activator(k) == <<"activation", k>>

UpdateActivatorsLock(t) ==
    /\ Running
    /\ Goto(t, "ua_lock", "ua_register")
    /\ Lock(Caller(t))
    /\ UNCHANGED <<engines, enginesNil, activators, sem, numworkers, envVars, eng, nextEngine,
                   procs, wg, snap, fan, orphans, ret, taskVars, trackerVars>>

\* An updateActivators that keeps the mutex while it runs the updates.
UpdateActivatorsKeepsMutex == UNCHANGED mux
\* updateActivators releases the mutex before it ranges over the trackers.
UpdateActivatorsUnlock == Unlock

\* updateActivators: a tracker is registered for every new activator process,
\* under the mutex.
UpdateActivators(t) ==
    /\ Running
    /\ Goto(t, "ua_register", "ua_range")
    /\ mux = Caller(t)
    /\ LET new == Sorted(NewActivatorProcs(procs[t], activators))
       IN  /\ trk' = trk \o [ i \in 1..Len(new) |-> NewTracker(new[i], TRUE) ]
           /\ activators' = [ p \in DOMAIN activators \cup Range(new) |->
                                IF p \in DOMAIN activators THEN activators[p]
                                ELSE Len(trk) + (CHOOSE i \in 1..Len(new) : new[i] = p) ]
    /\ UpdateActivatorsUnlock
    /\ UNCHANGED <<engines, enginesNil, sem, numworkers, envVars, eng, nextEngine,
                   procs, wg, snap, fan, orphans, ret, taskVars, tu, dispatched>>

\* Another goroutine is in a mutex section that writes the activator registry.
WritesActivators(u) ==
    /\ mux = Caller(u)
    /\ \/ pc[u] = "prune" /\ DOMAIN activators \ procs[u] # {}
       \/ pc[u] = "ua_register" /\ NewActivatorProcs(procs[u], activators) # {}

\* updateActivators, after the mutex is released: it ranges over f.activators
\* and runs the update of each tracker.  The map is read as it is at that
\* moment; when another goroutine writes it at the same time the runtime may
\* end the program (concurrent map iteration and map write).
UpdateActivatorsRange(t) ==
    /\ Running
    /\ pc[t] = "ua_range"
    /\ \/ \E p \in DOMAIN activators \ tu[t].visited :
            /\ tu' = [tu EXCEPT ![t] = [NoTu EXCEPT !.k = activators[p],
                                                    !.visited = tu[t].visited \cup {p}]]
            /\ pc' = [pc EXCEPT ![t] = "tu_raw"]
            /\ UNCHANGED failed
       \/ /\ DOMAIN activators \ tu[t].visited = {}
          /\ tu' = [tu EXCEPT ![t] = NoTu]
          /\ pc' = [pc EXCEPT ![t] = "wait"]
          /\ UNCHANGED failed
       \/ /\ \E u \in Callers \ {t} : WritesActivators(u)
          /\ failed' = "concurrent map iteration and map write"
          /\ UNCHANGED <<tu, pc>>
    /\ UNCHANGED <<finderVars, ctxCancelled, socks, changes, callVars, eng, nextEngine, procs, wg, snap,
                   fan, orphans, ret, taskVars, trk, dispatched>>

\* The update of a tracker returns to the loop of updateActivators.
UpdateActivatorsNext(t) ==
    /\ Running
    /\ Goto(t, "tu_ret", "ua_range")
    /\ ~tu[t].direct
    /\ tu' = [tu EXCEPT ![t] = [NoTu EXCEPT !.visited = tu[t].visited]]
    /\ UNCHANGED <<finderVars, envVars, eng, nextEngine, procs, wg, snap, fan, orphans, ret,
                   taskVars, trk, dispatched>>

\* ------------------------------------- the activation-and-attach protocol
\* findDaemon: the child of the activator with the engine's process name that
\* holds the listening socket.
ServicePIDs(k, ino) ==
    { p \in PIDs : \E f \in MatchingPlugins(ino) : ProcName[p] = f.name }

\* The outcome callback the tracker's update passes on: with an error, or
\* without a createdWatcherFn, it does nothing.
CallsCreatedWatcherFn(k, err) == ~err /\ trk[k].cb

\* activateAndStartWatch, the inner task: dial the socket, locate the service
\* process, create the watcher and start its watch.  A failed dial and a
\* service that is not found are errors; a factory that returns no watcher
\* leaves a nil watcher and no error (creatorfn never reports an error), and
\* startWatch panics on it: the task is "panicking", its deferred function
\* still to run.
ActivationRun(k, i) ==
    /\ Running
    /\ act[<<k, i>>].inner = "act"
    /\ \/ /\ act' = [act EXCEPT ![<<k, i>>].inner = "deferred", ![<<k, i>>].err = TRUE]
          /\ UNCHANGED <<eng, nextEngine, failed>>
       \/ /\ act' = [act EXCEPT ![<<k, i>>].inner = "panicking"]
          /\ UNCHANGED <<eng, nextEngine, failed>>
       \/ /\ nextEngine <= MaxEngines
          /\ \E p \in ServicePIDs(k, i) :
               eng' = WatchStarted(NewWatcher(eng, nextEngine, p), nextEngine)
          /\ nextEngine' = nextEngine + 1
          /\ act' = [act EXCEPT ![<<k, i>>].inner = "deferred", ![<<k, i>>].e = nextEngine]
          /\ UNCHANGED failed
    /\ UNCHANGED <<finderVars, ctxCancelled, socks, changes, callVars, callerVars, att, trackerVars>>

\* The record of an activation whose two tasks have both ended is free again.
ActSettle(r) == IF r.outer = "done" /\ r.inner = "end" THEN NoAct ELSE r

\* The inner task's deferred function: close(synched), then the outcome
\* callback with the task's watcher and error.  It also runs while the task
\* panics, and then the panic (or the callback's own w.PID() on the nil
\* watcher) ends the program.
ActivationDeferred(k, i) ==
    /\ Running
    /\ \/ /\ act[<<k, i>>].inner = "deferred"
          /\ act' = [act EXCEPT ![<<k, i>>] =
                       ActSettle([@ EXCEPT !.synched = TRUE,
                                           !.inner = IF CallsCreatedWatcherFn(k, act[<<k, i>>].err)
                                                     THEN "cb_lock" ELSE "end"])]
          /\ UNCHANGED failed
       \/ /\ act[<<k, i>>].inner = "panicking"
          /\ act' = [act EXCEPT ![<<k, i>>].synched = TRUE, ![<<k, i>>].inner = "end"]
          /\ failed' = "nil pointer dereference"
    /\ UNCHANGED <<finderVars, ctxCancelled, socks, changes, callVars, eng, nextEngine, callerVars, att,
                   trackerVars>>

\* createdWatcherFn: f.mux.Lock().
ActivationCallbackLock(k, i) ==
    /\ Running
    /\ act[<<k, i>>].inner = "cb_lock"
    /\ Lock(Activator(<<k, i>>))
    /\ act' = [act EXCEPT ![<<k, i>>].inner = "cb"]
    /\ UNCHANGED <<engines, enginesNil, activators, sem, numworkers, envVars, eng, nextEngine,
                   callerVars, att, trackerVars>>

\* f.engines[pid] = []*Engine{NewEngine(f.contexter(), w)}
SetEngine(m, p, e) == MapSet(m, p, <<e>>)

\* createdWatcherFn, under the mutex: the watcher is bound to a new Engine,
\* which becomes the only engine of its PID.  Writing to the nil map panics.
ActivationCallback(k, i) ==
    /\ Running
    /\ act[<<k, i>>].inner = "cb"
    /\ mux = Activator(<<k, i>>)
    /\ LET e == act[<<k, i>>].e
       IN  /\ eng' = NewEngine(eng, e)
           /\ IF enginesNil
              THEN /\ failed' = "assignment to entry in nil map"
                   /\ UNCHANGED <<engines, mux, act>>
              ELSE /\ engines' = SetEngine(engines, eng[e].pid, e)
                   /\ Unlock
                   /\ act' = [act EXCEPT ![<<k, i>>] = ActSettle([@ EXCEPT !.inner = "end"])]
                   /\ UNCHANGED failed
    /\ UNCHANGED <<enginesNil, activators, sem, numworkers, ctxCancelled, socks, changes, callVars,
                   nextEngine, callerVars, att, trackerVars>>

\* activateAndStartWatch, the outer wait: it ends when synched is closed
\* (timely) or when maxwait has elapsed, and with it the dispatched task:
\* wg.Done().
ActivationReturns(k, i) ==
    /\ Running
    /\ act[<<k, i>>].outer = "wait"
    /\ \E bysynched \in {act[<<k, i>>].synched, FALSE} :
         act' = [act EXCEPT ![<<k, i>>] =
                   ActSettle([@ EXCEPT !.outer = "done", !.timely = bysynched])]
    /\ wg' = [wg EXCEPT ![act[<<k, i>>].owner] = @ - 1]
    /\ UNCHANGED <<finderVars, envVars, eng, nextEngine, pc, procs, snap, fan, orphans, ret, att,
                   trackerVars>>

\* ------------------------------------------- Containers: query the engines
\* update: wg.Wait().
Wait(t) ==
    /\ Running
    /\ Goto(t, "wait", "snap_lock")
    /\ wg[t] = 0
    /\ UNCHANGED <<finderVars, envVars, eng, nextEngine, procs, wg, snap, fan, orphans, ret,
                   taskVars, trackerVars>>

SnapshotLock(t) ==
    /\ Running
    /\ Goto(t, "snap_lock", "snap")
    /\ Lock(Caller(t))
    /\ UNCHANGED <<engines, enginesNil, activators, sem, numworkers, envVars, eng, nextEngine,
                   procs, wg, snap, fan, orphans, ret, taskVars, trackerVars>>

\* No attach task and no activation is in flight.
Quiet ==
    /\ \A x \in DOMAIN att : att[x].pc = "none"
    /\ \A a \in DOMAIN act : ActFree(a[1], a[2])
\* The snapshot is steady when it is taken with nothing in flight: the number
\* of the next watcher then, 0 otherwise.
Steady == IF Quiet THEN nextEngine ELSE 0

\* What Containers hands back: the containers of the engines of list, after a
\* fan-out that was completed or not, from a snapshot that was steady or not.
Returned(list, complete, steady) ==
    [NoRet EXCEPT !.op = "Containers", !.list = list, !.complete = complete, !.steady = steady]

\* A Containers that goes on to the fan-out whatever allEngines holds.
NoEnginesNever(all) == FALSE
\* len(allEngines) == 0
NoEngines(all) == all = {}

\* Containers: allEngines is copied out of the registry under the mutex; with
\* no engine the call returns at once.  The loop of the fan-out runs once per
\* engine, and the results are waited for after it.
Snapshot(t) ==
    /\ Running
    /\ pc[t] = "snap"
    /\ mux = Caller(t)
    /\ Unlock
    /\ LET all == Registered(engines)
       IN  IF NoEngines(all)
           THEN /\ pc' = [pc EXCEPT ![t] = "idle"]
                /\ ret' = [ret EXCEPT ![t] = Returned({}, TRUE, Steady)]
                /\ UNCHANGED <<snap, fan>>
           ELSE /\ pc' = [pc EXCEPT ![t] = IF all = {} THEN "collect" ELSE "fanout"]
                /\ snap' = [snap EXCEPT ![t] = all]
                /\ fan' = [fan EXCEPT ![t] = [todo |-> all, running |-> {}, sent |-> {},
                                              left |-> Cardinality(all), steady |-> Steady,
                                              asked |-> [e \in all |-> 0], closes |-> 0]]
                /\ UNCHANGED ret
    /\ UNCHANGED <<engines, enginesNil, activators, sem, numworkers, envVars, eng, nextEngine,
                   procs, wg, orphans, taskVars, trackerVars>>

\* A semaphore that never makes an acquirer wait.
CanAcquireAlways == TRUE

\* semaphore.Acquire(ctx, 1) can succeed: a worker slot is free.
CanAcquire == sem < numworkers

\* Containers, the fan-out loop: a worker slot is acquired for the next engine
\* and its query task is spawned.
FanoutAcquire(t) ==
    /\ Running
    /\ pc[t] = "fanout"
    /\ CanAcquire
    /\ sem' = sem + 1
    /\ \E e \in fan[t].todo :
         /\ fan' = [fan EXCEPT ![t].todo = @ \ {e}, ![t].running = @ \cup {e},
                               ![t].asked[e] = @ + 1]
         /\ pc' = [pc EXCEPT ![t] = IF fan[t].todo = {e} THEN "collect" ELSE "fanout"]
    /\ UNCHANGED <<engines, enginesNil, activators, mux, numworkers, envVars, eng, nextEngine,
                   procs, wg, snap, orphans, ret, taskVars, trackerVars>>

\* Containers, the fan-out loop: the call's context is cancelled and Acquire
\* fails; the call returns allcontainers, which nothing has been added to yet.
\* The query tasks that run go on on their own.
FanoutAcquireFails(t) ==
    /\ Running
    /\ Goto(t, "fanout", "idle")
    /\ ret' = [ret EXCEPT ![t] = Returned({}, FALSE, fan[t].steady)]
    /\ orphans' = orphans + Cardinality(fan[t].running)
    /\ fan' = [fan EXCEPT ![t] = NoFan]
    /\ snap' = [snap EXCEPT ![t] = {}]
    /\ UNCHANGED <<finderVars, envVars, eng, nextEngine, procs, wg, taskVars, trackerVars>>

\* A query task that closes the channel whatever the counter says.
LastResultAlways(left) == TRUE
\* theendisnear.Add(-1) > 0 is false: no result is missing any more.
LastResult(left) == left <= 0

\* A query task: engine.Containers, the result is sent, the counter of missing
\* results decremented (the last one closes the channel); the deferred
\* Release(1) frees the worker slot.
QueryDone(t, e) ==
    /\ Running
    /\ e \in fan[t].running
    /\ fan' = [fan EXCEPT ![t].running = @ \ {e}, ![t].sent = @ \cup {e}, ![t].left = @ - 1,
                          ![t].closes = IF LastResult(fan[t].left - 1) THEN @ + 1 ELSE @]
    /\ sem' = sem - 1
    /\ UNCHANGED <<engines, enginesNil, activators, mux, numworkers, envVars, eng, nextEngine,
                   pc, procs, wg, snap, orphans, ret, taskVars, trackerVars>>

\* A query task of a call that has returned ends: Release(1).
OrphanQueryDone ==
    /\ Running
    /\ orphans > 0
    /\ orphans' = orphans - 1
    /\ sem' = sem - 1
    /\ UNCHANGED <<engines, enginesNil, activators, mux, numworkers, envVars, eng, nextEngine,
                   pc, procs, wg, snap, fan, ret, taskVars, trackerVars>>

\* Containers: the results are received until the channel is closed, and
\* returned.
Collect(t) ==
    /\ Running
    /\ Goto(t, "collect", "idle")
    /\ fan[t].closes > 0
    /\ ret' = [ret EXCEPT ![t] = Returned(fan[t].sent, TRUE, fan[t].steady)]
    /\ fan' = [fan EXCEPT ![t] = NoFan]
    /\ snap' = [snap EXCEPT ![t] = {}]
    /\ UNCHANGED <<finderVars, envVars, eng, nextEngine, procs, wg, orphans, taskVars, trackerVars>>

\* ----------------------------------------- the tracker driven on its own
\* A caller runs update() of the first tracker directly.
TrackerUpdate(t) ==
    /\ Running
    /\ Goto(t, "idle", "tu_raw")
    /\ Len(trk) >= 1
    /\ tu' = [tu EXCEPT ![t] = [NoTu EXCEPT !.k = 1, !.direct = TRUE]]
    /\ UNCHANGED <<finderVars, envVars, eng, nextEngine, procs, wg, snap, fan, orphans, ret,
                   taskVars, trk, dispatched>>

TrackerUpdateReturns(t) ==
    /\ Running
    /\ Goto(t, "tu_ret", "idle")
    /\ tu[t].direct
    /\ tu' = [tu EXCEPT ![t] = NoTu]
    /\ UNCHANGED <<finderVars, envVars, eng, nextEngine, procs, wg, snap, fan, orphans, ret,
                   taskVars, trk, dispatched>>

\* The activator is reconfigured: it opens or closes one listening socket,
\* one of those in S.
ConfigChange(S) ==
    /\ Running
    /\ changes < MaxChanges
    /\ changes' = changes + 1
    /\ \E i \in S : socks' = IF i \in socks THEN socks \ {i} ELSE socks \cup {i}
    /\ UNCHANGED <<finderVars, failed, ctxCancelled, callVars, eng, nextEngine, callerVars, taskVars,
                   trackerVars>>

\* ------------------------------------------------- startWatch on its own
\* moby.New: a watcher for the engine process p, not yet watching.
MobyNew(p) ==
    /\ Running
    /\ nextEngine <= MaxEngines
    /\ eng' = NewWatcher(eng, nextEngine, p)
    /\ nextEngine' = nextEngine + 1
    /\ UNCHANGED <<finderVars, envVars, callerVars, taskVars, trackerVars>>

\* startWatch up to its select: the watch runs on a task of its own, the
\* timer of maxwait is armed.
StartWatch(e) ==
    /\ Running
    /\ eng[e].state = "created" /\ eng[e].sw = "none"
    /\ eng' = [WatchStarted(eng, e) EXCEPT ![e].sw = "select", ![e].watch = "running"]
    /\ UNCHANGED <<finderVars, envVars, nextEngine, callerVars, taskVars, trackerVars>>

\* The watcher has finished its initial synchronization: Ready is closed.
WatchSynchronized(e) ==
    /\ Running
    /\ eng[e].watch = "running" /\ ~eng[e].ready
    /\ eng' = [eng EXCEPT ![e].ready = TRUE]
    /\ UNCHANGED <<finderVars, envVars, nextEngine, callerVars, taskVars, trackerVars>>

\* Watch returns: always once the context is cancelled, at any time on an
\* error.  Ready is closed in this case, too.
WatchTerminates(e) ==
    /\ Running
    /\ eng[e].watch = "running"
    /\ eng' = [eng EXCEPT ![e].watch = "ended", ![e].ready = TRUE]
    /\ UNCHANGED <<finderVars, envVars, nextEngine, callerVars, taskVars, trackerVars>>

\* maxwait has elapsed: the timer delivers on wecker.C.
WeckerFires(e) ==
    /\ Running
    /\ eng[e].sw = "select" /\ ~eng[e].wecker
    /\ eng' = [eng EXCEPT ![e].wecker = TRUE]
    /\ UNCHANGED <<finderVars, envVars, nextEngine, callerVars, taskVars, trackerVars>>

\* A select that waits for Ready only.
SelectReadyOnly(r) == r.ready

\* The select of startWatch: a case is ready when Ready is closed or the timer
\* has delivered.
SelectReady(r) == r.ready \/ r.wecker

\* startWatch returns from its select; the watch is left alone.
StartWatchReturns(e) ==
    /\ Running
    /\ eng[e].sw = "select"
    /\ SelectReady(eng[e])
    /\ eng' = [eng EXCEPT ![e].sw = "returned"]
    /\ UNCHANGED <<finderVars, envVars, nextEngine, callerVars, taskVars, trackerVars>>

\* --------------------------------------------------- stacking the engines
\* The process table stackEngines is given: PID 1 is the root, every other
\* process has a parent with a smaller PID.
StackPIDs == 1..MaxStackPIDs
StackTrees ==
    { par \in [StackPIDs -> 0..(MaxStackPIDs - 1)] :
        par[1] = 0 /\ \A p \in StackPIDs \ {1} : par[p] \in 1..(p - 1) }
\* The engines of the snapshot and the names of the containers they return.
StackEngineIds == {1, 2}
ContainerNames == {"kindisch", "busybox"}
NoPrefix == ""
\* The containers: under each name none, or one with the PID of its initial
\* process and its engine.
ContainerSets ==
    { { [name |-> n, pid |-> f[n][1], engine |-> f[n][2]] : n \in { m \in ContainerNames : f[m][1] # 0 } } :
        f \in [ContainerNames -> ({<<0, 0>>} \cup (StackPIDs \X StackEngineIds))] }

\* The container whose initial process is pid, if there is one.
ContainerOfPID(cntrs, pid) == { c \in cntrs : c.pid = pid }

\* A search that finds no container.
EnclosingNone(cntrs, parent, pid) == {}

\* The container an engine process is in: that of the nearest process, from
\* pid up the process tree, that is the initial process of a container.
RECURSIVE Enclosing(_, _, _)
Enclosing(cntrs, parent, pid) ==
    IF pid = 0 THEN {}
    ELSE IF ContainerOfPID(cntrs, pid) # {} THEN ContainerOfPID(cntrs, pid)
    ELSE Enclosing(cntrs, parent, parent[pid])

\* stackEngines: the containers of every engine whose process is in a
\* container get the name of that container as their prefix label.
StackEnginesOf(cntrs, epid, parent) ==
    [ n \in { c.name : c \in cntrs } |->
        LET c == CHOOSE d \in cntrs : d.name = n
            outer == Enclosing(cntrs, parent, epid[c.engine])
        IN  IF outer = {} THEN NoPrefix ELSE (CHOOSE o \in outer : TRUE).name ]

\* The ancestors of pid in the process tree, pid among them.
RECURSIVE AncestorsOrSelf(_, _)
AncestorsOrSelf(parent, pid) ==
    IF pid = 0 THEN {} ELSE {pid} \cup AncestorsOrSelf(parent, parent[pid])

\* What Containers() can have aggregated: no two containers share their
\* initial process, no two engines their process, and no engine runs in a
\* container of its own.
Aggregated(cntrs, epid, parent) ==
    /\ \A c, d \in cntrs : c.pid = d.pid => c = d
    /\ \A e, g \in StackEngineIds : epid[e] = epid[g] => e = g
    /\ \A c \in cntrs : c.pid \notin AncestorsOrSelf(parent, epid[c.engine])

\* Containers() has received the containers of all engines.
StackAggregate ==
    /\ Running
    /\ stk.pc = "none"
    /\ \E parent \in StackTrees, epid \in [StackEngineIds -> StackPIDs], cntrs \in ContainerSets :
         /\ Aggregated(cntrs, epid, parent)
         /\ stk' = [NoStk EXCEPT !.pc = "aggregated", !.parent = parent, !.epid = epid,
                                 !.cntrs = cntrs]
    /\ UNCHANGED <<finderVars, failed, ctxCancelled, socks, changes, fac, loc, pureVars, eng, nextEngine,
                   callerVars, taskVars, trackerVars>>

\* Containers() calls stackEngines and returns.
StackEngines ==
    /\ Running
    /\ stk.pc = "aggregated"
    /\ stk' = [stk EXCEPT !.pc = "stacked",
                          !.labels = StackEnginesOf(stk.cntrs, stk.epid, stk.parent)]
    /\ UNCHANGED <<finderVars, failed, ctxCancelled, socks, changes, fac, loc, pureVars, eng, nextEngine,
                   callerVars, taskVars, trackerVars>>

\* ---------------------------------------------------- the watcher factories
\* The API paths of an engine process, and what the endpoint behind each does
\* to a factory: whether the path ends in ".ttrpc", whether the clients can be
\* constructed (new, crinew), whether the probing calls answer (answer:
\* Version without error, a version that is not empty, Info without error;
\* crianswer), and whether the context the factory looks at is done after the
\* probing call (ctxerr).
APIPaths == 1..MaxAPIs
\* A client that cannot be constructed answers nothing.
Profiles ==
    { p \in [ttrpc : BOOLEAN, new : BOOLEAN, answer : BOOLEAN, ctxerr : BOOLEAN,
              crinew : BOOLEAN, crianswer : BOOLEAN] :
        (~p.new => ~p.answer) /\ (~p.crinew => ~p.crianswer) }
\* What containerd's factory can meet: it looks at the context of its caller,
\* which stays done.  The other factories look at the probe's own context.
CallerContext(apis, prof) ==
    \A a, b \in Range(apis) : (a < b /\ prof[a].ctxerr) => prof[b].ctxerr
\* The lists of distinct API paths.
APILists ==
    { l \in UNION { [1..n -> APIPaths] : n \in 0..MaxAPIs } :
        \A i, j \in DOMAIN l : l[i] = l[j] => i = j }

\* sort.Strings: the paths in ascending order.
RECURSIVE SortStrings(_)
SortStrings(l) ==
    IF l = <<>> THEN <<>>
    ELSE LET m == CHOOSE i \in DOMAIN l : \A j \in DOMAIN l : l[i] <= l[j]
         IN  <<l[m]>> \o SortStrings(SubSeq(l, 1, m - 1) \o SubSeq(l, m + 1, Len(l)))

\* containerd's native and CRI watcher, CRI-O's and podman's watcher for path a.
Native(a) == <<"containerd", a>>
CRI(a) == <<"cri", a>>
Moby(a) == <<"podman", a>>

\* A CRI probe that is taken to have answered.
CRIAnswersAlways(p) == TRUE
\* containerd, the CRI probe: RuntimeService().Version returns no error.
CRIAnswers(p) == p.crianswer

\* containerd Detector.NewWatchers over the sorted paths l: the first path that
\* is no ttrpc path and whose native client is constructed and answers Version
\* gives the native watcher, and the CRI watcher with it when the CRI client
\* is constructed and answers.  With the context done and no error from
\* Version, the log call dereferences the nil error.
RECURSIVE ContainerdNewWatchers(_, _, _)
ContainerdNewWatchers(l, prof, out) ==
    IF l = <<>> THEN out
    ELSE LET a == Head(l)
             p == prof[a]
             made == [out EXCEPT !.created = @ \cup {Native(a)}]
             shut == [made EXCEPT !.closed = @ \cup {Native(a)}]
             one == [made EXCEPT !.ws = <<Native(a)>>]
             crimade == [one EXCEPT !.created = @ \cup {CRI(a)}]
         IN  IF p.ttrpc \/ ~p.new THEN ContainerdNewWatchers(Tail(l), prof, out)
             ELSE IF p.ctxerr
                  THEN IF p.answer THEN [made EXCEPT !.panic = TRUE]
                       ELSE ContainerdNewWatchers(Tail(l), prof, shut)
             ELSE IF ~p.answer THEN ContainerdNewWatchers(Tail(l), prof, shut)
             ELSE IF ~p.crinew THEN one
             ELSE IF ~CRIAnswers(p) THEN [crimade EXCEPT !.closed = @ \cup {CRI(a)}]
             ELSE [crimade EXCEPT !.ws = <<Native(a), CRI(a)>>]

\* crio Detector.NewWatchers over the sorted paths l.  The error of the probe
\* lives in the if statement only: with an empty version and the context not
\* done the log call dereferences the nil error, and the check for returning
\* the watcher sees the error of the client's construction, which is nil.
RECURSIVE CrioNewWatchers(_, _, _)
CrioNewWatchers(l, prof, out) ==
    IF l = <<>> THEN out
    ELSE LET a == Head(l)
             p == prof[a]
             made == [out EXCEPT !.created = @ \cup {CRI(a)}]
             newerr == ~p.new
         IN  IF newerr THEN CrioNewWatchers(Tail(l), prof, out)
             ELSE IF (p.ctxerr \/ ~p.answer) /\ ~p.ctxerr THEN [made EXCEPT !.panic = TRUE]
             ELSE IF ~newerr THEN [made EXCEPT !.ws = <<CRI(a)>>]
             ELSE CrioNewWatchers(Tail(l), prof, [made EXCEPT !.closed = @ \cup {CRI(a)}])

\* podman Engine.NewWatcher for the path a: the deferred function closes the
\* watcher whenever an error is left.
PodmanNewWatcher(a, prof, out) ==
    LET p == prof[a]
        made == [out EXCEPT !.created = @ \cup {Moby(a)}]
    IN  IF ~p.new THEN out
        ELSE IF p.ctxerr \/ ~p.answer THEN [made EXCEPT !.closed = @ \cup {Moby(a)}]
        ELSE [made EXCEPT !.ws = <<Moby(a)>>]

\* What the factory of the given kind does with the paths.
FactoryResult(kind, apis, prof) ==
    CASE kind = "containerd" -> ContainerdNewWatchers(SortStrings(apis), prof, NoOut)
      [] kind = "crio" -> CrioNewWatchers(SortStrings(apis), prof, NoOut)
      [] kind = "podman" -> PodmanNewWatcher(apis[1], prof, NoOut)

\* An attach task (or an activation) is about to call a factory.
FactoryCall ==
    /\ Running
    /\ fac.pc = "none"
    /\ \E kind \in {"containerd", "crio", "podman"}, apis \in APILists, prof \in [APIPaths -> Profiles] :
         /\ kind = "podman" => Len(apis) = 1
         /\ kind = "containerd" => CallerContext(apis, prof)
         /\ kind # "containerd" => \A a \in APIPaths : ~prof[a].ttrpc /\ ~prof[a].crinew /\ ~prof[a].crianswer
         /\ \A a \in APIPaths \ Range(apis) : prof[a] = [ttrpc |-> FALSE, new |-> FALSE, answer |-> FALSE,
                                                        ctxerr |-> FALSE, crinew |-> FALSE, crianswer |-> FALSE]
         /\ fac' = [NoFac EXCEPT !.pc = "call", !.kind = kind, !.apis = apis, !.prof = prof]
    /\ UNCHANGED <<finderVars, failed, ctxCancelled, socks, changes, stk, loc, pureVars, eng, nextEngine,
                   callerVars, taskVars, trackerVars>>

\* The factory runs and returns its watchers, or panics.
FactoryReturns ==
    /\ Running
    /\ fac.pc = "call"
    /\ LET out == FactoryResult(fac.kind, fac.apis, fac.prof)
       IN  /\ fac' = [fac EXCEPT !.pc = "returned", !.out = out]
           /\ failed' = IF out.panic THEN "nil pointer dereference" ELSE failed
    /\ UNCHANGED <<finderVars, ctxCancelled, socks, changes, stk, loc, pureVars, eng, nextEngine,
                   callerVars, taskVars, trackerVars>>

\* ------------------------------------------- locating the activated engine
\* The number of times activateAndStartWatch looks for the engine process.
findAttempts == 10
\* findDaemon at the given call: the engine process shows up at the call
\* numbered appears (never with 0) and is found from then on.
FindDaemonAt(appears, call) ==
    IF appears # 0 /\ call >= appears THEN CHOOSE p \in PIDs : ProcName[p] = "podman" ELSE 0
\* A loop that takes no PID for found.
FoundNever(pid) == FALSE
\* pid != 0: the loop is left.
Found(pid) == pid # 0

\* activateAndStartWatch has dialled the socket and enters the loop; the
\* watcher context may be cancelled already.
LocateStart ==
    /\ Running
    /\ loc.pc = "none"
    /\ \E appears \in 0..(findAttempts + 1), c \in BOOLEAN :
         loc' = [NoLoc EXCEPT !.pc = "find", !.appears = appears, !.attempt = 1, !.cancelled = c]
    /\ UNCHANGED <<finderSide, stk, fac, pureVars>>

\* One attempt: findDaemon is called; with a PID the loop is left, without
\* one the timer of findPolling is armed and the select entered.
LocateFindDaemon ==
    /\ Running
    /\ loc.pc = "find"
    /\ LET pid == FindDaemonAt(loc.appears, loc.calls + 1)
       IN  loc' = [loc EXCEPT !.calls = @ + 1, !.pid = pid,
                              !.late = IF loc.cancelled THEN @ + 1 ELSE @,
                              !.pc = IF Found(pid) THEN "check" ELSE "sleep",
                              !.atEntry = loc.cancelled]
    /\ UNCHANGED <<finderSide, stk, fac, pureVars>>

\* The select of the loop returns.  The timer, armed for 100 ms on entry, can
\* deliver only when the context was not yet cancelled on entry; the context's
\* Done ends the loop.
LocateSelect ==
    /\ Running
    /\ loc.pc = "sleep"
    /\ \/ /\ ~loc.atEntry
          /\ loc' = [loc EXCEPT !.attempt = @ + 1,
                                 !.pc = IF loc.attempt + 1 <= findAttempts THEN "find" ELSE "check"]
       \/ /\ loc.cancelled
          /\ loc' = [loc EXCEPT !.pc = "check"]
    /\ UNCHANGED <<finderSide, stk, fac, pureVars>>

\* After the loop: without a PID the attempt ends with an error, with one the
\* watcher factory (creatorfn) is called.
LocateCheck ==
    /\ Running
    /\ loc.pc = "check"
    /\ loc' = IF loc.pid = 0
              THEN [loc EXCEPT !.pc = "done", !.err = TRUE]
              ELSE [loc EXCEPT !.pc = "done", !.created = TRUE]
    /\ UNCHANGED <<finderSide, stk, fac, pureVars>>

\* The watcher context is cancelled while the loop runs.
LocateCancel ==
    /\ Running
    /\ loc.pc \in {"find", "sleep"} /\ ~loc.cancelled
    /\ loc' = [loc EXCEPT !.cancelled = TRUE]
    /\ UNCHANGED <<finderSide, stk, fac, pureVars>>

\* ------------------------------------------------- processStatusMatch
\* Strings are sequences of characters, indices count from 0 as in Go.
\* strings.Index: the index of the first c in s, -1 for none.
Index(s, c) ==
    IF \E i \in 1..Len(s) : s[i] = c
    THEN (CHOOSE i \in 1..Len(s) : s[i] = c /\ \A j \in 1..(i - 1) : s[j] # c) - 1
    ELSE -1
\* A search for the closing bracket that stops at the first one.
FirstIndex(s, c) == Index(s, c)
\* strings.LastIndex: the index of the last c in s, -1 for none.
LastIndex(s, c) ==
    IF \E i \in 1..Len(s) : s[i] = c
    THEN (CHOOSE i \in 1..Len(s) : s[i] = c /\ \A j \in (i + 1)..Len(s) : s[j] # c) - 1
    ELSE -1
\* s[a:b]
Slice(s, a, b) == SubSeq(s, a + 1, b)
\* s[a:]
SliceFrom(s, a) == SubSeq(s, a + 1, Len(s))
\* strings.HasPrefix
HasPrefix(s, prefix) == Len(prefix) <= Len(s) /\ SubSeq(s, 1, Len(prefix)) = prefix

\* processStatusMatch: "true", "false", or "panic" where a slice expression
\* is out of range.
processStatusMatch(statline, name, ppidtext) ==
    LET sp == Index(statline, " ")
        idx == sp + 2
    IN  IF sp < 0 THEN "false"
        ELSE IF idx > Len(statline) THEN "panic"
        ELSE LET lastidx == LastIndex(SliceFrom(statline, idx), ")")
             IN  IF lastidx < 0 THEN "false"
                 ELSE IF Slice(statline, idx, idx + lastidx) # name THEN "false"
                 ELSE LET idx2 == idx + lastidx + 2
                      IN  IF idx2 > Len(statline) THEN "false"
                          ELSE LET sp2 == Index(SliceFrom(statline, idx2), " ")
                               IN  IF sp2 < 0 THEN "false"
                                   ELSE IF HasPrefix(SliceFrom(statline, idx2 + sp2 + 1), ppidtext)
                                        THEN "true" ELSE "false"

\* strconv.FormatInt(n, 10) for n >= 0.
RECURSIVE FormatInt(_)
FormatInt(n) ==
    LET digit == <<"0", "1", "2", "3", "4", "5", "6", "7", "8", "9">>[(n % 10) + 1]
    IN  IF n < 10 THEN <<digit>> ELSE FormatInt(n \div 10) \o <<digit>>

\* The stat line procfs gives for a process: PID, the command name in
\* brackets, the state, the PPID and the fields that follow.
StatLine(pid, comm, ppid) ==
    FormatInt(pid) \o <<" ", "(">> \o comm \o <<")", " ", "S", " ">> \o FormatInt(ppid)
        \o <<" ", "0">>
\* Command names, some with brackets and blanks of their own.
Comms == { <<"d">>, <<"d", ")">>, <<"(", "d">>, <<"d", ")", " ", "S", " ", "1", " ">> }
\* The stat lines handed to processStatusMatch: whole ones and truncated ones.
StatLines ==
    UNION { { SubSeq(StatLine(4, c, pp), 1, n) : n \in 0..Len(StatLine(4, c, pp)) } :
            <<c, pp>> \in Comms \X {1, 11, 2} }
\* The PPID texts processStatusMatch is called with.
PPIDTexts == { <<"1">>, <<"1", " ">>, <<"1", "1", " ">> }

ProcessStatusMatchCall ==
    /\ Running
    /\ psm.pc = "none"
    /\ \E statline \in StatLines, name \in Comms, ppidtext \in PPIDTexts :
         psm' = [pc |-> "done", statline |-> statline, name |-> name, ppidtext |-> ppidtext,
                 result |-> processStatusMatch(statline, name, ppidtext)]
    /\ UNCHANGED <<finderSide, stk, fac, loc, fdm, lab>>

\* A call that failed ends the program; otherwise the next call can be made.
ProcessStatusMatchReturns ==
    /\ Running
    /\ psm.pc = "done"
    /\ psm' = NoPsm
    /\ failed' = IF psm.result = "panic" THEN "slice" ELSE failed
    /\ UNCHANGED <<finderVars, ctxCancelled, socks, changes, stk, fac, loc, fdm, lab, eng,
                   nextEngine, callerVars, taskVars, trackerVars>>

\* --------------------------------------------------------- findDaemon
\* strconv.Atoi: the number the decimal digits of s spell, -1 for the error.
RECURSIVE Atoi(_)
Atoi(s) ==
    LET digits == <<"0", "1", "2", "3", "4", "5", "6", "7", "8", "9">>
        last == s[Len(s)]
        value == (CHOOSE d \in 1..10 : digits[d] = last) - 1
        front == IF Len(s) = 1 THEN 0 ELSE Atoi(SubSeq(s, 1, Len(s) - 1))
    IN  IF s = <<>> \/ \A d \in 1..10 : digits[d] # last THEN -1
        ELSE IF front < 0 THEN -1
        ELSE front * 10 + value

\* "socket:[" + strconv.FormatUint(udsino, 10) + "]"
SocketText(udsino) == <<"socket:[">> \o FormatInt(udsino) \o <<"]">>
\* A PPID text without the blank that ends the field.
PPIDTextBare(ppid) == FormatInt(ppid)
\* strconv.FormatInt(int64(ppid), 10) + " "
PPIDText(ppid) == FormatInt(ppid) \o <<" ">>

\* The loop of findDaemon over the entries of /proc from the i-th on, in the
\* order ReadDir hands them out.  An entry has the name of its directory, the
\* stat line and the link targets of the fd directory, and whether reading
\* the one or the other fails.  The result is a PID, 0, or -1 for a panic.
RECURSIVE FindDaemonFrom(_, _, _, _, _)
FindDaemonFrom(proc, i, name, ppidtext, sockettext) ==
    IF i > Len(proc) THEN 0
    ELSE LET e == proc[i]
             next == FindDaemonFrom(proc, i + 1, name, ppidtext, sockettext)
             match == IF e.statErr THEN "false"
                      ELSE processStatusMatch(e.stat, name, ppidtext)
         IN  IF match = "panic" THEN -1
             ELSE IF match = "false" THEN next
             ELSE IF e.fdsErr THEN next
             ELSE IF sockettext \notin e.fds THEN next
             ELSE IF Atoi(e.entry) < 0 THEN 0
             ELSE Atoi(e.entry)

findDaemon(proc, ppid, name, udsino) ==
    FindDaemonFrom(proc, 1, name, PPIDText(ppid), SocketText(udsino))

\* The command names of the processes findDaemon is tried on.
DaemonComms == { <<"d">>, <<"d", ")">> }
\* What /proc shows of a process: pid, comm and ppid are the process's own,
\* kept beside the texts procfs makes of them; a process that has gone, or
\* that the caller may not look into, cannot be read.
ProcEntry(pid, comm, ppid, links, readable) ==
    [entry |-> FormatInt(pid), pid |-> pid, comm |-> comm, ppid |-> ppid,
     stat |-> StatLine(pid, comm, ppid), statErr |-> readable = "gone",
     fds |-> links, fdsErr |-> readable # "all"]
\* The entries of the processes with the given PID.
ProcEntries(pid) ==
    { ProcEntry(pid, comm, ppid, { SocketText(i) : i \in inos }, r) :
        comm \in DaemonComms, ppid \in {1, 11}, inos \in SUBSET {3, 4},
        r \in {"all", "stat", "gone"} }
\* /proc/self: the caller, which is no engine daemon; it holds the socket
\* it has dialled the activator with.
SelfEntry ==
    [entry |-> <<"self">>, pid |-> 9, comm |-> <<"t">>, ppid |-> 1,
     stat |-> StatLine(9, <<"t">>, 1), statErr |-> FALSE,
     fds |-> {SocketText(8)}, fdsErr |-> FALSE]
\* The orders ReadDir can list three entries in.
Listings(a, b, c) ==
    { <<a, b, c>>, <<a, c, b>>, <<b, a, c>>, <<b, c, a>>, <<c, a, b>>, <<c, b, a>> }

FindDaemonCall ==
    /\ Running
    /\ fdm.pc = "none"
    /\ \E a \in ProcEntries(5), b \in ProcEntries(12), ppid \in {1, 11}, name \in DaemonComms,
          udsino \in {3, 4} :
         \E proc \in Listings(a, b, SelfEntry) :
           fdm' = [pc |-> "done", proc |-> proc, ppid |-> ppid, name |-> name,
                   udsino |-> udsino, result |-> findDaemon(proc, ppid, name, udsino)]
    /\ UNCHANGED <<finderSide, stk, fac, loc, psm, lab>>

FindDaemonReturns ==
    /\ Running
    /\ fdm.pc = "done"
    /\ fdm' = NoFdm
    /\ failed' = IF fdm.result < 0 THEN "slice" ELSE failed
    /\ UNCHANGED <<finderVars, ctxCancelled, socks, changes, stk, fac, loc, psm, lab, eng,
                   nextEngine, callerVars, taskVars, trackerVars>>

\* --------------------------------------------------- Engine.Containers
\* Label maps live on a heap (lab.heap, indexed by reference); a container
\* holds the reference of its map.  lab.portfolio has the references of the
\* containers of the watcher's portfolio, lab.calls those of the containers
\* each call of Engine.Containers has returned.
LabelKeys == {"k", "new"}
LabelValues == {"v", "w"}
\* m[k] = v on a map.
SetLabel(m, k, v) == [x \in DOMAIN m \cup {k} |-> IF x = k THEN v ELSE m[x]]

\* The watcher has two containers in its portfolio, with or without a label.
WatcherPortfolio ==
    /\ Running
    /\ lab.portfolio = <<>>
    /\ \E m1, m2 \in { <<>>, [x \in {"k"} |-> "v"] } :
         lab' = [lab EXCEPT !.heap = <<m1, m2>>, !.portfolio = <<1, 2>>]
    /\ UNCHANGED <<finderSide, stk, fac, loc, psm, fdm>>

\* A container that is handed the portfolio's own map.
PortfolioLabels(cloned, labels) == labels
\* Labels: clonedLabels, the map made for the container.
ContainerLabels(cloned, labels) == cloned

\* Engine.Containers: for each container of the portfolio a new map is made
\* and filled with the container's labels, and the container that is handed
\* out gets it.
EngineContainers ==
    /\ Running
    /\ lab.portfolio # <<>>
    /\ Len(lab.calls) < MaxCalls
    /\ LET n == Len(lab.portfolio)
           clonedLabels == [i \in 1..n |-> lab.heap[lab.portfolio[i]]]
           containers == [i \in 1..n |-> ContainerLabels(Len(lab.heap) + i, lab.portfolio[i])]
       IN  lab' = [lab EXCEPT !.heap = @ \o clonedLabels, !.calls = Append(@, containers)]
    /\ UNCHANGED <<finderSide, stk, fac, loc, psm, fdm>>

\* A decorator sets a label of a container that was handed out.
Decorate ==
    /\ Running
    /\ \E c \in 1..Len(lab.calls) :
         \E i \in 1..Len(lab.calls[c]), k \in LabelKeys, v \in LabelValues :
           lab' = [lab EXCEPT !.heap[lab.calls[c][i]] = SetLabel(@, k, v)]
    /\ UNCHANGED <<finderSide, stk, fac, loc, psm, fdm>>

\* ------------------------------------------------------ specifications
\* The steps of Containers(ctx, table, pidmap) of caller t, for the process
\* tables of "tables".
ContainersStep(t, tables) ==
    \/ \E table \in tables : StartContainers(t, table)
    \/ PruneLock(t)
    \/ Prune(t)
    \/ UpdateDaemonsLock(t)
    \/ UpdateDaemons(t)
    \/ UpdateActivatorsLock(t)
    \/ UpdateActivators(t)
    \/ UpdateActivatorsRange(t)
    \/ Wait(t)
    \/ SnapshotLock(t)
    \/ Snapshot(t)
    \/ FanoutAcquire(t)
    \/ FanoutAcquireFails(t)
    \/ Collect(t)

CloseStep(t) ==
    \/ StartClose(t)
    \/ CloseLock(t)
    \/ Close(t)

ReadStep(t) ==
    \/ StartEngines(t)
    \/ EnginesLock(t)
    \/ Engines(t)
    \/ StartEngineCount(t)
    \/ EngineCountLock(t)
    \/ EngineCount(t)

\* The steps of a tracker's update, whoever runs it.
TrackerStep(t) ==
    \/ TrackerRawSocketFds(t)
    \/ TrackerCheckHash(t)
    \/ TrackerListening(t)
    \/ TrackerDiscover(t)
    \/ TrackerDispatch(t)

AttachStep ==
    \/ \E t \in Callers, p \in DaemonPIDs : AttachScan(t, p)
    \/ \E t \in Callers, p \in DaemonPIDs : AttachLock(t, p)
    \/ \E t \in Callers, p \in DaemonPIDs : AttachRegister(t, p)

QueryStep ==
    \/ \E t \in Callers, e \in EngineIds : QueryDone(t, e)
    \/ OrphanQueryDone

SupervisorStep ==
    \/ \E e \in EngineIds : SupervisorWatchReturns(e)
    \/ \E e \in EngineIds : SupervisorWatchReturnsNil(e)
    \/ \E e \in EngineIds : SupervisorClose(e)

ActivationStep ==
    \/ \E k \in TrackerIds, i \in Inodes : ActivationRun(k, i)
    \/ \E k \in TrackerIds, i \in Inodes : ActivationDeferred(k, i)
    \/ \E k \in TrackerIds, i \in Inodes : ActivationReturns(k, i)

ActivationCallbackStep ==
    \/ \E k \in TrackerIds, i \in Inodes : ActivationCallbackLock(k, i)
    \/ \E k \in TrackerIds, i \in Inodes : ActivationCallback(k, i)

\* The process tables with engine processes only, and with none of them.
DaemonTables == SUBSET DaemonPIDs
ActivatorTables == SUBSET (PIDs \ DaemonPIDs)

\* One caller, engine processes with well-known names: discovery, queries,
\* Close, and the watchers ending.
Next ==
    \/ ContainersStep("c1", DaemonTables)
    \/ CloseStep("c1")
    \/ ReadStep("c1")
    \/ AttachStep
    \/ QueryStep
    \/ SupervisorStep
    \/ CancelContext

Spec == Init /\ [][Next]_vars

\* One caller, socket activators and the engines they activate.
NextActivators ==
    \/ ContainersStep("c1", ActivatorTables)
    \/ UpdateActivatorsNext("c1")
    \/ TrackerStep("c1")
    \/ CloseStep("c1")
    \/ \E e \in EngineIds : QueryDone("c1", e)
    \/ SupervisorStep
    \/ ActivationStep
    \/ ActivationCallbackStep

SpecActivators == Init /\ [][NextActivators]_vars

\* Two callers at the same time.
NextConcurrent ==
    \/ \E t \in Callers : ContainersStep(t, {DaemonPIDs})
    \/ AttachStep
    \/ QueryStep
    \/ SupervisorStep

SpecConcurrent == Init /\ [][NextConcurrent]_vars

\* A tracker of its own (newSocketActivator without a createdWatcherFn), whose
\* update() a caller runs again and again while the activator is reconfigured.
InitTracker == InitWith(<<NewTracker(1, FALSE)>>)

NextTracker ==
    \/ TrackerUpdate("c1")
    \/ TrackerStep("c1")
    \/ TrackerUpdateReturns("c1")
    \/ ConfigChange(Inodes)
    \/ ActivationStep

SpecTracker == InitTracker /\ [][NextTracker]_vars

\* The sockets an activation is dispatched for.
EngineSockets == Dispatches(Inodes)

\* Two callers run update() of the same tracker at the same time while the
\* activator closes and opens its engine socket.
NextTrackerRace ==
    \/ \E t \in Callers : TrackerUpdate(t)
    \/ \E t \in Callers : TrackerStep(t)
    \/ \E t \in Callers : TrackerUpdateReturns(t)
    \/ ConfigChange(EngineSockets)
    \/ ActivationStep

SpecTrackerRace == InitTracker /\ [][NextTrackerRace]_vars

\* Two callers at the same time: one with the socket activators in its process
\* table, the other with a table from which they are gone.
NextRace ==
    \/ ContainersStep("c1", {ActivatorPIDs})
    \/ ContainersStep("c2", {{}})
    \/ \E t \in Callers : UpdateActivatorsNext(t)
    \/ \E t \in Callers : TrackerStep(t)
    \/ \E t \in Callers, e \in EngineIds : QueryDone(t, e)
    \/ ActivationStep
    \/ ActivationCallbackStep

SpecRace == Init /\ [][NextRace]_vars

\* One caller that calls Containers() again and again; every goroutine that
\* can take a step eventually takes one.
NextLive ==
    \/ ContainersStep("c1", DaemonTables)
    \/ AttachStep
    \/ QueryStep
    \/ SupervisorStep

SpecLive ==
    /\ Init
    /\ [][NextLive]_vars
    /\ WF_vars(ContainersStep("c1", DaemonTables))
    /\ WF_vars(AttachStep)
    /\ WF_vars(QueryStep)
    /\ WF_vars(SupervisorStep)

\* One caller that calls Containers() again and again with the socket
\* activator in its process table; the caller, the activation tasks and the
\* engine queries eventually take the steps they can take.
NextActivatorsLive ==
    \/ ContainersStep("c1", {ActivatorPIDs})
    \/ UpdateActivatorsNext("c1")
    \/ TrackerStep("c1")
    \/ \E e \in EngineIds : QueryDone("c1", e)
    \/ ActivationStep
    \/ ActivationCallbackStep

SpecActivatorsLive ==
    /\ Init
    /\ [][NextActivatorsLive]_vars
    /\ WF_vars(ContainersStep("c1", {ActivatorPIDs}))
    /\ WF_vars(UpdateActivatorsNext("c1"))
    /\ WF_vars(TrackerStep("c1"))
    /\ WF_vars(\E e \in EngineIds : QueryDone("c1", e))
    /\ WF_vars(ActivationStep)
    /\ WF_vars(ActivationCallbackStep)

\* startWatch called directly on watchers of its own; timers fire and a
\* select with a ready case proceeds.
NextStartWatch ==
    \/ \E p \in DaemonPIDs : MobyNew(p)
    \/ \E e \in EngineIds : StartWatch(e)
    \/ \E e \in EngineIds : WatchSynchronized(e)
    \/ \E e \in EngineIds : WatchTerminates(e)
    \/ \E e \in EngineIds : WeckerFires(e)
    \/ \E e \in EngineIds : StartWatchReturns(e)
    \/ CancelContext

SpecStartWatch ==
    /\ Init
    /\ [][NextStartWatch]_vars
    /\ \A e \in EngineIds : WF_vars(WeckerFires(e))
    /\ \A e \in EngineIds : WF_vars(StartWatchReturns(e))

\* The aggregation and stacking of one Containers() call, for any process
\* tree, engines and containers.
NextStack ==
    \/ StackAggregate
    \/ StackEngines

SpecStack == Init /\ [][NextStack]_vars

\* One call of a watcher factory, for any paths and any behaviour of the
\* endpoints behind them.
NextFactory ==
    \/ FactoryCall
    \/ FactoryReturns

SpecFactory == Init /\ [][NextFactory]_vars

\* One run of the loop that locates the activated engine process.
NextLocate ==
    \/ LocateStart
    \/ LocateFindDaemon
    \/ LocateSelect
    \/ LocateCheck
    \/ LocateCancel

SpecLocate == Init /\ [][NextLocate]_vars

\* Calls of processStatusMatch.
NextStatusMatch ==
    \/ ProcessStatusMatchCall
    \/ ProcessStatusMatchReturns

SpecStatusMatch == Init /\ [][NextStatusMatch]_vars

\* Calls of findDaemon.
NextFindDaemon ==
    \/ FindDaemonCall
    \/ FindDaemonReturns

SpecFindDaemon == Init /\ [][NextFindDaemon]_vars

\* Calls of Engine.Containers, and decorators at work on what they return.
NextLabels ==
    \/ WatcherPortfolio
    \/ EngineContainers
    \/ Decorate

SpecLabels == Init /\ [][NextLabels]_vars

\* ================================================================ claims
\* Caller t has returned from Containers().
ContainersReturned(t) == pc[t] = "idle" /\ ret[t].op = "Containers"

\* C1: the Close() of every watcher is invoked at most once, over the
\* supervising task, prune and the Finder's Close together.
C1_ClosedAtMostOnce == \A e \in EngineIds : CloseCount(e) <= 1

\* C2 as stated: over the lifetime of a tracker an activation is dispatched at
\* most once for every socket inode, whatever the updates and reconfigurations.
C2_DispatchedAtMostOnce == \A a \in TrackerIds \X Inodes : dispatched[a] <= 1

\* C2: a tracker dispatches one activation at a time for a socket, and only
\* for a socket that its discovery has handed out as new; discovery hands a
\* socket out as new only in the step that puts it into the observed set,
\* which did not hold it (a socket that was pruned from the observed set and
\* shows up again is handed out, and dispatched, again).
C2_DispatchedOncePerObservation ==
    [][ /\ \A k \in TrackerIds, i \in Inodes :
             dispatched'[<<k, i>>] # dispatched[<<k, i>>] =>
                 /\ dispatched'[<<k, i>>] = dispatched[<<k, i>>] + 1
                 /\ \E t \in Callers : tu[t].k = k /\ i \in tu[t].new /\ i \notin tu'[t].new
        /\ \A t \in Callers, i \in Inodes :
             (i \in tu'[t].new /\ i \notin tu[t].new) =>
                 /\ i \notin trk[tu[t].k].observed
                 /\ i \in trk'[tu[t].k].observed ]_vars

\* A socket that was dispatched, pruned and observed again is dispatched for
\* the second time.
C2_Redispatched ==
    \E i \in Inodes : dispatched[<<1, i>>] = 2 /\ i \in trk[1].observed /\ changes = MaxChanges

C5_ClosedFinderIsInert ==
    enginesNil =>
        /\ Running
        /\ Registered(engines) = {}
        /\ \A t \in Callers : ContainersReturned(t) => ret[t].list = {}

\* Close() was the last operation of the Finder that anyone has called.
ClosedForGood ==
    /\ enginesNil
    /\ \A t \in Callers : pc[t] = "idle" /\ ret[t].op \in {"Close", "none"}

\* C6: after Close() the registry never holds an engine again, and an attach
\* task or activation callback that completes late neither registers an
\* engine nor fails.
C6_LateTasksAreHarmless ==
    ClosedForGood => (failed # "assignment to entry in nil map" /\ Registered(engines) = {})

\* C7: Close() closes the watcher of every registered engine and leaves the
\* registry empty, so that Engines() and EngineCount() have nothing to report
\* from then on; it does not cancel the context of the contexter.
C7_CloseClosesAll ==
    [][ /\ \A t \in Callers :
             (pc[t] = "close" /\ pc'[t] = "idle") =>
                 /\ \A e \in Registered(engines) :
                        eng'[e].closes.finder = eng[e].closes.finder + 1
                 /\ engines' = EmptyMap
                 /\ ctxCancelled' = ctxCancelled
        /\ enginesNil' =>
             /\ Registered(engines') = {}
             /\ EngineCountOf(engines') = 0
             /\ \A t \in Callers :
                    /\ ret'[t].op = "Engines" => ret'[t].list = {}
                    /\ ret'[t].op = "EngineCount" => ret'[t].count = 0 ]_vars

\* Close() has closed a registered watcher, and EngineCount() was asked after.
C7_ClosedAndAsked ==
    /\ enginesNil
    /\ \E e \in EngineIds : eng[e].closes.finder = 1
    /\ \E t \in Callers : ret[t].op = "EngineCount"

\* C8: an engine whose Done is closed does not stay registered: with
\* Containers() called again and again it leaves the registry.
C8_DeadEngineLeaves ==
    \A e \in EngineIds :
        (eng[e].done /\ e \in Registered(engines)) ~> (e \notin Registered(engines))

\* Where the next step of a caller reads, ranges over or writes a registry.
AtRegistryAccess(t) ==
    pc[t] \in {"prune", "ud_filter", "ua_register", "ua_range", "snap", "close", "engines", "count"}

\* C9: whoever reads, ranges over or writes the engine registry or the
\* activator registry holds the Finder's mutex.
C9_RegistriesUnderMutex ==
    /\ \A t \in Callers : AtRegistryAccess(t) => mux = Caller(t)
    /\ \A a \in DOMAIN att : att[a].pc = "reg" => mux = Attacher(a[1])
    /\ \A a \in DOMAIN act : act[a].inner = "cb" => mux = Activator(a)

\* The engine queries that run.
RunningQueries ==
    orphans + Cardinality({ q \in Callers \X EngineIds : q[2] \in fan[q[1]].running })

\* C10: over all Containers() calls in flight no more engine queries run than
\* there are workers; every running query holds one slot of the pool and
\* every slot is held by a running query, so that a slot is released when its
\* query ends.
C10_WorkersBounded ==
    /\ RunningQueries <= numworkers
    /\ sem = RunningQueries

\* Both callers have a query running, every worker is busy, and an engine is
\* waiting for a slot.
C10_AllWorkersBusy ==
    /\ sem = numworkers
    /\ \A t \in Callers : fan[t].running # {}
    /\ \E t \in Callers : pc[t] = "fanout"

\* C11: when the acquisition of a worker slot fails, Containers() returns the
\* results of the engines of that call whose query has delivered already.
C11_PartialResults ==
    [][ \A t \in Callers :
          (pc[t] = "fanout" /\ pc'[t] = "idle") => ret'[t].list = fan[t].sent ]_vars

\* C12: an engine a socket activation of a call has created, with the
\* activation finished within the wait (the time-boxed wait was ended by
\* synched), is in the registry when the call takes its snapshot of engines.
C12_RegisteredBeforeSnapshot ==
    [][ \A t \in Callers :
          (pc[t] = "snap" /\ pc'[t] # "snap") =>
              \A a \in DOMAIN act :
                  (act[a].owner = t /\ act[a].timely /\ act[a].e # 0) =>
                      act[a].e \in Registered(engines) ]_vars

\* The inner task of activation a runs its deferred function in this step.
OutcomeCallbackRuns(a) ==
    /\ act[a].inner \in {"deferred", "panicking"}
    /\ act'[a].inner # act[a].inner

\* C13: the outcome callback of an activation receives an error whenever it
\* receives no watcher.
C13_NoWatcherMeansError ==
    [][ \A a \in DOMAIN act :
          (OutcomeCallbackRuns(a) /\ act[a].e = 0) => act[a].err ]_vars

\* C14: an inner task that leaves the creation of its watcher without a
\* watcher has an error for the outcome callback and starts no watch.
C14_FactoryFailureIsAnError ==
    [][ \A a \in DOMAIN act :
          (act[a].inner = "act" /\ act'[a].inner # "act" /\ act'[a].e = 0) =>
              (act'[a].err /\ act'[a].inner = "deferred") ]_vars

\* C15: a startWatch that waits in its select returns, whether or not its
\* watcher ever becomes ready; it returns only with Ready closed or maxwait
\* elapsed, and its return leaves the watch running.
C15_StartWatchTimeBoxed ==
    /\ \A e \in EngineIds : (eng[e].sw = "select") ~> (eng[e].sw = "returned")
    /\ [][ \A e \in EngineIds :
             (eng[e].sw = "select" /\ eng'[e].sw = "returned") =>
                 /\ eng[e].ready \/ eng[e].wecker
                 /\ eng'[e].watch = eng[e].watch ]_vars

\* startWatch has returned on the timer from a watcher that is not ready,
\* with the watch still running.
C15_ReturnedUnsynchronized ==
    \E e \in EngineIds :
        eng[e].sw = "returned" /\ ~eng[e].ready /\ eng[e].watch = "running"

\* C16: an update whose hash of the socket fds equals the hash the tracker
\* holds from the previous update ends at the hash check: it reports no new
\* socket, dispatches no activation and leaves the tracker's hash and observed
\* set as they are.
C16_UnchangedHashChangesNothing ==
    [][ \A t \in Callers :
          ( /\ pc[t] \in {"tu_check", "tu_discover"}
            /\ pc'[t] # pc[t]
            /\ tu[t].hash = trk[tu[t].k].hash ) =>
              /\ pc'[t] = "tu_ret"
              /\ tu'[t].new = {}
              /\ trk' = trk
              /\ dispatched' = dispatched
              /\ act' = act ]_vars

\* A second update has ended at the hash check of a tracker that has observed
\* sockets in a previous update.
C16_SecondUpdateEnded ==
    \E t \in Callers :
        /\ pc[t] = "tu_ret"
        /\ tu[t].hash # 0
        /\ tu[t].hash = trk[tu[t].k].hash
        /\ trk[tu[t].k].observed # {}

\* C17 as stated: for every socket of a tracker's observed set exactly one
\* activation has been dispatched.
C17_ObservedDispatchedOnce ==
    \A k \in DOMAIN trk : \A i \in trk[k].observed : dispatched[<<k, i>>] = 1

\* The socket i is still among the new sockets of an update of tracker k that
\* has not yet run activateAndWatch.
PendingNew(k, i) == \E t \in Callers : tu[t].k = k /\ i \in tu[t].new

\* C17: for a socket of the observed set whose path matches no finder plugin
\* or does not resolve no activation is ever dispatched; for any other one at
\* least one activation has been dispatched as soon as the update that put it
\* into the set has run activateAndWatch (and one more for every time the
\* socket has left the set and come back).
C17_EngineSocketsDispatched ==
    \A k \in DOMAIN trk : \A i \in trk[k].observed :
        /\ (MatchingPlugins(i) = {} \/ ~EvalSymlinks(SockPath[i])) => dispatched[<<k, i>>] = 0
        /\ (MatchingPlugins(i) # {} /\ EvalSymlinks(SockPath[i]) /\ ~PendingNew(k, i)) =>
               dispatched[<<k, i>>] >= 1

\* After its update has returned a tracker observes a socket of an engine that
\* was dispatched, one that matches no plugin and one that does not resolve.
C17_ObservedOfEveryKind ==
    /\ pc["c1"] = "idle"
    /\ \E i \in trk[1].observed : dispatched[<<1, i>>] >= 1
    /\ \E i \in trk[1].observed : MatchingPlugins(i) = {}
    /\ \E i \in trk[1].observed : MatchingPlugins(i) # {} /\ ~EvalSymlinks(SockPath[i])

\* How often the engine e occurs in the registry m.
Occurrences(m, e) ==
    Cardinality({ x \in UNION { {p} \X DOMAIN m[p] : p \in DOMAIN m } : m[x[1]][x[2]] = e })

\* C18: Engines() returns the engines that are in the registry at the time of
\* the call with Done not closed, and no other; each of them is in the
\* registry once, so that it is described once.
C18_EnginesListsTheAlive ==
    [][ \A t \in Callers :
          (pc[t] = "engines" /\ pc'[t] = "idle") =>
              /\ ret'[t].list = { e \in EngineIds : Occurrences(engines, e) >= 1 /\ ~eng[e].done }
              /\ \A e \in ret'[t].list : Occurrences(engines, e) = 1 ]_vars

\* Engines() has returned an engine and has left out one whose Done is closed.
C18_AliveListedDeadLeftOut ==
    \E t \in Callers :
        /\ pc[t] = "idle" /\ ret[t].op = "Engines"
        /\ ret[t].list # {}
        /\ \E e \in Registered(engines) \ ret[t].list : eng[e].done

\* C19: EngineCount() returns the number of engines that are in the registry
\* at the time of the call.
C19_CountsEngines ==
    [][ \A t \in Callers :
          (pc[t] = "count" /\ pc'[t] = "idle") =>
              ret'[t].count = Cardinality(Registered(engines)) ]_vars

\* Caller t returns in this step from a Containers() call that follows a
\* Containers() call of t with the same process table; both calls have
\* completed their fan-out, no watch has terminated and the finder is not
\* closed.
SecondReturn(t) ==
    /\ pc[t] # "idle" /\ pc'[t] = "idle"
    /\ ret[t].again /\ ret'[t].op = "Containers"
    /\ ret[t].complete /\ ret'[t].complete
    /\ ~enginesNil'
    /\ \A e \in EngineIds : ~eng'[e].done

\* C20 as stated: the second of two successive Containers() calls with the
\* same process table returns the engines (and with them the containers) the
\* first has returned.
C20_SameResultTwice ==
    [][ \A t \in Callers : SecondReturn(t) => ret'[t].list = ret[t].list ]_vars

\* C20: the second call returns what the first has returned when the first
\* took its snapshot with no attach and no activation in flight and no watcher
\* was created since.
C20_SameResultWhenSteady ==
    [][ \A t \in Callers :
          (SecondReturn(t) /\ ret[t].steady = nextEngine') =>
              ret'[t].list = ret[t].list ]_vars

\* The second call has queried every engine of its snapshot and is about to
\* hand back the engine that the first call, steady and complete, has returned.
C20_SecondCallCollects ==
    \E t \in Callers :
        /\ pc[t] = "collect" /\ fan[t].left = 0
        /\ ret[t].again /\ ret[t].complete /\ ret[t].steady = nextEngine
        /\ ret[t].list # {} /\ fan[t].sent = ret[t].list
        /\ ~enginesNil
        /\ \A e \in EngineIds : ~eng[e].done

\* The containers, known from another engine than e, that the process of
\* engine e is in.
EnclosingOf(e) ==
    { k \in stk.cntrs : k.engine # e /\ k.pid \in AncestorsOrSelf(stk.parent, stk.epid[e]) }

\* C21: after stacking, the containers of an engine whose process is in a
\* container known from another engine all carry as prefix label the name of
\* the enclosing container (of the innermost one, when these are nested);
\* the containers of an engine that is in no container carry no prefix.
C21_NestedEnginesPrefixed ==
    stk.pc = "stacked" =>
        \A c \in stk.cntrs :
            LET outer == EnclosingOf(c.engine)
            IN  IF outer = {}
                THEN stk.labels[c.name] = NoPrefix
                ELSE \E k \in outer :
                       /\ stk.labels[c.name] = k.name
                       /\ \A j \in outer : j.pid \in AncestorsOrSelf(stk.parent, k.pid)

\* Stacked: the engine of "busybox" runs below the initial process of
\* "kindisch", which is known from the other engine.
C21_TurtleStacked ==
    /\ stk.pc = "stacked"
    /\ \E c, k \in stk.cntrs :
         /\ c.name = "busybox" /\ k.name = "kindisch" /\ c.engine # k.engine
         /\ k.pid \in AncestorsOrSelf(stk.parent, stk.epid[c.engine]) \ {stk.epid[c.engine]}
         /\ stk.labels["busybox"] = "kindisch"
         /\ stk.labels["kindisch"] = NoPrefix

\* The path's native probe passes: the client is constructed, Version answers
\* and the context is not done.
NativePasses(a) ==
    LET p == fac.prof[a] IN ~p.ttrpc /\ p.new /\ p.answer /\ ~p.ctxerr
\* The first path, in sorted order, whose native probe passes.
FirstNative ==
    { a \in Range(fac.apis) : NativePasses(a) /\ \A b \in Range(fac.apis) : NativePasses(b) => a <= b }

\* C22: containerd's factory, when it returns, returns for the first path that
\* passes the native probe the native watcher followed by the CRI watcher when
\* the CRI probe on that path succeeds, the native watcher alone when it does
\* not, and no watcher when no path passes the native probe; it never returns
\* a CRI watcher alone.
C22_NativeThenCRI ==
    (fac.pc = "returned" /\ fac.kind = "containerd" /\ ~fac.out.panic) =>
        /\ FirstNative = {} => fac.out.ws = <<>>
        /\ \A a \in FirstNative :
             IF fac.prof[a].crinew /\ fac.prof[a].crianswer
             THEN fac.out.ws = <<Native(a), CRI(a)>>
             ELSE fac.out.ws = <<Native(a)>>
        /\ fac.out.ws # <<>> => fac.out.ws[1][1] = "containerd"

\* containerd's factory has skipped a first path that fails the native probe
\* and has returned two watchers for the second one.
C22_TwoWatchersOnSecondPath ==
    /\ fac.pc = "returned" /\ fac.kind = "containerd"
    /\ fac.apis = <<2, 1>>
    /\ fac.prof[1].new /\ ~fac.prof[1].answer
    /\ fac.out.ws = <<Native(2), CRI(2)>>
    /\ fac.out.closed = {Native(1)}

\* The probe behind the watcher w has passed: its client was constructed, the
\* probing call answered and the context was not done.
ProbePassed(w) ==
    LET p == fac.prof[w[2]]
    IN  IF fac.kind = "containerd" /\ w[1] = "cri"
        THEN p.crinew /\ p.crianswer
        ELSE p.new /\ p.answer /\ ~p.ctxerr

\* C23: a watcher factory always returns; it returns no watcher whose client
\* construction, probing call or probe deadline failed, and it has closed
\* every client it created and does not return.
C23_FailedProbeLeavesNothing ==
    fac.pc = "returned" =>
        /\ ~fac.out.panic
        /\ \A w \in Range(fac.out.ws) : ProbePassed(w)
        /\ fac.out.created \ Range(fac.out.ws) \subseteq fac.out.closed

\* C24: of two update() calls that run on the same tracker at the same time,
\* no socket inode is dispatched by both.
C24_NotDispatchedByBoth ==
    \A t \in Callers : tu[t].sent \cap tu[t].seen = {}

\* The attach tasks that hold watchers they created for the engine process p.
AttachingTo(p) == { t \in Callers : att[<<t, p>>].pc \in {"lock", "reg"} }

\* C25: for an engine process that concurrent Containers() calls see, watchers
\* are created by at most one attach task, and the registry never holds two
\* engines of the same workload stream under one PID.
C25_OneEnginePerStream ==
    /\ \A p \in DaemonPIDs : Cardinality(AttachingTo(p)) <= 1
    /\ \A p \in DOMAIN engines : \A i, j \in DOMAIN engines[p] :
         eng[engines[p][i]].stream = eng[engines[p][j]].stream => i = j

\* The step ends a critical section of the Finder's mutex: the holder
\* releases it.  The attach task is left out, whose registering step goes on,
\* after the release, to bind the next watcher.
HolderReleases == mux # NoOwner /\ mux' = NoOwner /\ mux[1] # "attach"
\* The step talks to an engine: NewEngine queries the ID and the version of a
\* created watcher, or prune or Close close a watcher.
TalksToEngine ==
    \E e \in EngineIds :
        \/ eng[e].state = "created" /\ eng'[e].state = "watching"
        \/ eng'[e].closes.prune # eng[e].closes.prune
        \/ eng'[e].closes.finder # eng[e].closes.finder

\* C26: no critical section of the Finder's mutex talks to an engine (ID and
\* version query, watcher close): the mutex is held only while the registry
\* maps are read or updated.
C26_NoEngineIOUnderMutex == [][HolderReleases => ~TalksToEngine]_vars

\* The positions of an update at which the tracker's mutex is taken: the two
\* locked parts of discoverAPIPaths.
TrackerSections == {"tu_check", "tu_discover"}

\* C27: the two mutexes are never nested.  A caller about to take a tracker's
\* mutex does not hold the Finder's mutex, and a step that writes a tracker's
\* hash or observed set under the tracker's mutex does not touch the Finder's.
C27_MutexesNeverNested ==
    [][ /\ \A t \in Callers : pc'[t] \in TrackerSections => mux' # Caller(t)
        /\ (\E k \in DOMAIN trk : trk'[k] # trk[k]) => mux' = mux ]_vars

\* A caller is in the locked part of a tracker's discovery while the callback
\* of an earlier activation holds the Finder's mutex.
C27_BothMutexesInUse ==
    \E t \in Callers : pc[t] = "tu_discover" /\ mux # NoOwner /\ mux[1] = "activation"

\* C28: on every watcher that has been bound to an Engine, Watch has been
\* invoked exactly once over the attach path (startWatch, then NewEngine): one
\* task runs the watcher.
C28_WatchInvokedOnce ==
    \A e \in EngineIds : eng[e].state \notin {"unused", "created"} => eng[e].runs = 1

\* C29: no step takes an engine out of the registry whose watcher has not
\* been closed: a registered engine stays reachable for prune and Close()
\* until then, also when a socket-activated engine is registered under its PID.
C29_RegisteredUntilClosed ==
    [][ \A e \in Registered(engines) \ Registered(engines') :
            eng'[e].closes # UnusedEngine.closes ]_vars

\* The engines of the list s whose Done is not closed, in the order of s.
AliveOf(s) == SelectSeq(s, LAMBDA e : ~eng[e].done)

AddedEngineSockets(t) ==
    { i \in tu[t].raw : MatchingPlugins(i) # {} /\ i \notin (trk[tu[t].k].observed \ tu[t].new) }
\* The update of caller t, which has found a changed configuration, runs
\* activateAndWatch.
DispatchStep(t) == pc[t] = "tu_dispatch" /\ pc'[t] = "tu_ret"
\* The step dispatches an activation for socket i of tracker k.
DispatchedNow(k, i) == dispatched'[<<k, i>>] = dispatched[<<k, i>>] + 1

Outstanding(t) ==
    Cardinality({ a \in DOMAIN att : a[1] = t /\ att[a].pc # "none" })
      + Cardinality({ a \in DOMAIN act : act[a].owner = t /\ act[a].outer = "wait" })

\* C32: the wait group of a Containers() call counts the attach tasks and
\* activations it has spawned that have not returned, and the wait of update()
\* always ends: every Containers() call goes on to query the engines.
C32_WaitAlwaysEnds ==
    /\ [](\A t \in Callers : wg[t] = Outstanding(t))
    /\ \A t \in Callers : (pc[t] = "wait") ~> (pc[t] = "snap_lock")

\* C33: in one activation attempt findDaemon is called at most findAttempts
\* times; the loop stops at the first call that returns a PID; once the
\* context is cancelled at most the call under way or the one the running
\* timer leads to follows; and an attempt that found no PID ends with an error
\* and without a call of the watcher factory.
C33_LocateLoopBounded ==
    /\ loc.calls <= findAttempts
    /\ loc.pid # 0 => loc.calls = loc.appears
    /\ loc.late <= 1
    /\ loc.pc = "done" => IF loc.pid = 0 THEN loc.err /\ ~loc.created
                                         ELSE ~loc.err /\ loc.created

\* All attempts were made, none found the engine process, and the attempt has
\* ended with an error.
C33_GaveUpAfterAllAttempts ==
    /\ loc.pc = "done" /\ loc.calls = findAttempts
    /\ loc.pid = 0 /\ loc.err /\ ~loc.cancelled

\* C34: in a call of Containers whose acquisitions of a worker slot all
\* succeed, every engine of the snapshot is queried exactly once, the channel
\* of the results is closed once and only when every result has been sent, and
\* the call returns the results of all the engines of the snapshot.
C34_FanOutComplete ==
    [][\A t \in Callers :
         /\ fan'[t].closes > fan[t].closes =>
              fan'[t].closes = 1 /\ fan'[t].sent = snap[t]
         /\ (pc[t] = "collect" /\ pc'[t] = "idle") =>
              /\ ret'[t].complete /\ ret'[t].list = snap[t]
              /\ \A e \in snap[t] : fan[t].asked[e] = 1]_vars

\* A call has returned the results of two engines.
C34_TwoEnginesCollected ==
    \E t \in Callers :
      /\ ret[t].op = "Containers" /\ ret[t].complete
      /\ Cardinality(ret[t].list) = 2

\* C35: a call of Containers that finds no engine in the registry when it
\* takes its snapshot returns an empty list at once; it starts no query and
\* does not wait for results.
C35_NoEngineNoWait ==
    [][\A t \in Callers :
         (pc[t] = "snap" /\ pc'[t] # "snap" /\ Registered(engines) = {}) =>
            /\ pc'[t] = "idle"
            /\ ret'[t].op = "Containers" /\ ret'[t].list = {}
            /\ fan'[t] = fan[t] /\ sem' = sem]_vars

\* A call has returned at once with nothing, no query of its being under way.
C35_ReturnedEmptyAtOnce ==
    \E t \in Callers :
      /\ pc[t] = "idle" /\ ret[t].op = "Containers"
      /\ ret[t].complete /\ ret[t].list = {}
      /\ fan[t] = NoFan /\ Registered(engines) = {}

\* C36: whenever the Watch of an engine's supervising task returns, with an
\* error or without one, the task closes Done and goes on to close the
\* watcher, which it closes only with Done closed.
C36_WatchReturnClosesDone ==
    [][\A e \in EngineIds :
         /\ (eng[e].state = "watching" /\ eng'[e].state # "watching") =>
               eng'[e].done /\ eng'[e].state = "closing"
         /\ eng'[e].closes.supervisor > eng[e].closes.supervisor => eng[e].done]_vars

\* The line is a PID field, a command field in brackets that ends at the
\* line's last ")" and reads name, a blank, a state field, and a rest that
\* starts with ppidtext.
NamedWithParent(s, name, ppidtext) ==
    \E p \in 0..Len(s), st \in 0..Len(s) :
      LET open == p + 2
          close == open + Len(name) + 1
          rest == close + 1 + st + 1
      IN  /\ rest + Len(ppidtext) <= Len(s)
          /\ \A i \in 1..p : s[i] # " "
          /\ s[p + 1] = " " /\ s[open] = "("
          /\ SubSeq(s, open + 1, close - 1) = name
          /\ s[close] = ")" /\ \A i \in (close + 1)..Len(s) : s[i] # ")"
          /\ s[close + 1] = " "
          /\ \A i \in (close + 2)..(close + 1 + st) : s[i] # " "
          /\ s[rest] = " "
          /\ SubSeq(s, rest + 1, rest + Len(ppidtext)) = ppidtext

\* C37: processStatusMatch is true exactly when the command field, which
\* runs from the "(" after the first blank to the last ")" of the line, equals
\* name and the field after the state field starts with ppidtext.
C37_MatchesNameAndParent ==
    psm.pc = "done" =>
        (psm.result = "true" <=> NamedWithParent(psm.statline, psm.name, psm.ppidtext))

\* A process whose command name holds a ")" has been matched.
C37_MatchedNameWithBracket ==
    /\ psm.pc = "done" /\ psm.result = "true"
    /\ \E i \in 1..Len(psm.name) : psm.name[i] = ")"

\* The line is empty, ends with the blank after the PID field, has no ")",
\* or has nothing after the state field.
Truncated(s) ==
    \/ s = <<>>
    \/ Index(s, " ") = Len(s) - 1
    \/ LastIndex(s, ")") < 0
    \/ LET tail == SliceFrom(s, LastIndex(s, ")") + 1)
       IN  \/ Len(tail) <= 1
           \/ Index(SliceFrom(tail, 1), " ") < 0
           \/ Index(SliceFrom(tail, 1), " ") = Len(tail) - 2

\* C38: for a stat line that is empty, that ends right after the PID field
\* and its blank, that has no closing bracket or that has no PPID field,
\* processStatusMatch returns false and does not fail.
C38_TruncatedLineIsNoMatch ==
    (psm.pc = "done" /\ Truncated(psm.statline)) => psm.result = "false"

\* The processes of the call's /proc that are there, have the name and the
\* parent asked for and hold the socket; Readable are those of them the
\* caller can look into.
Daemons ==
    { i \in 1..Len(fdm.proc) :
        /\ ~fdm.proc[i].statErr
        /\ fdm.proc[i].comm = fdm.name /\ fdm.proc[i].ppid = fdm.ppid
        /\ SocketText(fdm.udsino) \in fdm.proc[i].fds }
ReadableDaemons == { i \in Daemons : ~fdm.proc[i].fdsErr }

\* C39: findDaemon returns the PID of a process whose command name is name,
\* whose PPID is the parent PID itself and which holds the socket with the
\* inode number; it returns 0 when there is no such process, and a PID when
\* there is one it can look into.
C39_FindsTheDaemon ==
    fdm.pc = "done" =>
        /\ fdm.result # 0 => \E i \in ReadableDaemons : fdm.proc[i].pid = fdm.result
        /\ Daemons = {} => fdm.result = 0
        /\ ReadableDaemons # {} => fdm.result # 0

\* The daemon was found beside a process of the same name whose PPID starts
\* with the digits of the parent PID and which holds the socket as well.
C39_FoundBesideLongerPPID ==
    /\ fdm.pc = "done" /\ fdm.result = 12 /\ fdm.ppid = 1
    /\ \E i \in 1..Len(fdm.proc) :
         /\ fdm.proc[i].pid = 5 /\ fdm.proc[i].ppid = 11 /\ fdm.proc[i].comm = fdm.name
         /\ ~fdm.proc[i].fdsErr /\ SocketText(fdm.udsino) \in fdm.proc[i].fds

\* The containers handed out whose labels a step changes.
Relabelled ==
    { ci \in { <<c, i>> : c \in 1..Len(lab.calls), i \in 1..Len(lab.portfolio) } :
        lab'.heap[lab.calls[ci[1]][ci[2]]] # lab.heap[lab.calls[ci[1]][ci[2]]] }

\* C40: Engine.Containers hands out each container with a label map of its
\* own: setting a label of a container handed out changes neither the labels
\* in the watcher's portfolio nor those of any other container handed out, by
\* the same call or by another.
C40_LabelsAreCopies ==
    [][lab'.calls = lab.calls =>
         /\ \A i \in 1..Len(lab.portfolio) :
              lab'.heap[lab.portfolio[i]] = lab.heap[lab.portfolio[i]]
         /\ Cardinality(Relabelled) <= 1]_vars

\* Two calls have handed out the first container; a decorator has changed the
\* labels of the one handed out first, and the portfolio and the one handed
\* out second still have the labels of before.
C40_DecoratedOneCopy ==
    /\ Len(lab.calls) = 2
    /\ lab.heap[lab.portfolio[1]] = [x \in {"k"} |-> "v"]
    /\ lab.heap[lab.calls[2][1]] = lab.heap[lab.portfolio[1]]
    /\ lab.heap[lab.calls[1][1]] = [x \in {"k", "new"} |-> "w"]

====
